---- MODULE Spec2Model ----
(***************************************************************************)
(* A model of the MOS 6502 core of pageer/myfinemu (package core): the CPU *)
(* value, the ROM loader, Reset, and the fetch-execute loop of Run with    *)
(* the opcode table and the handlers the table reaches.                    *)
(*                                                                         *)
(* Representation. The CPU struct is the record `cpu`, with the source's   *)
(* field names. Its memory, a [65536]uint8 array that NewCPU zeroes, is    *)
(* kept as a function whose domain is exactly the set of addresses holding *)
(* a non-zero byte: MemRead gives 0 everywhere else and MemWrite drops an  *)
(* address when it stores 0, so two equal arrays have one representation.  *)
(* A ROM image ([]uint8) is kept the same way: its length and its non-zero *)
(* bytes by 0-based index. All arithmetic keeps Go's widths: uint8 values  *)
(* are taken modulo 256 and uint16 values modulo 65536.                    *)
(***************************************************************************)
EXTENDS Integers, Sequences, FiniteSets, TLC

VARIABLES cpu, ctl, steps, entry, last, buffer, peer, outstanding

vars == <<cpu, ctl, steps, entry, last, buffer, peer, outstanding>>

(***************************************************************************)
(* Constants of the package                                                *)
(***************************************************************************)
N_BIT_STATUS == 128
V_BIT_STATUS == 64
B_BIT_STATUS == 16
D_BIT_STATUS == 8
I_BIT_STATUS == 4
Z_BIT_STATUS == 2
C_BIT_STATUS == 1
NEG_BIT == 128

MEMORY_SIZE == 65536
ROM_SEGMENT_START == 32768
STACK_START == 256
PC_RESET_ADDRESS == 65532

\* AddressMode, in iota order
AddrImmediate == 0
AddrZeroPage == 1
AddrZeroPageX == 2
AddrZeroPageY == 3
AddrAbsolute == 4
AddrAbsoluteX == 5
AddrAbsoluteY == 6
AddrIndirectX == 7
AddrIndirectY == 8
AddrImplied == 9
AddrIndirect == 10
\* Named by the LSR and ROL handlers and declared nowhere in the source: taken
\* as a mode of its own, next in the enumeration
AddrAccumulator == 11

\* InstructionPostProccessingMode, in iota order
InstructionHalt == 0
InstructionContinue == 1
InstructionProgramCounterUpdated == 2

\* The two error values and Go's nil error
ErrNil == "nil"
ErrROMTooBig == "ROM image too big"
ErrUnimplemented == "Unimplemented opcode"

(***************************************************************************)
(* Fixed-width arithmetic                                                  *)
(***************************************************************************)
U8(n) == n % 256

U16(n) == n % 65536

RECURSIVE BitAnd(_, _)
\* x & y on naturals
BitAnd(x, y) ==
    IF x = 0 \/ y = 0 THEN 0
    ELSE (x % 2) * (y % 2) + 2 * BitAnd(x \div 2, y \div 2)

RECURSIVE BitOr(_, _)
\* x | y on naturals
BitOr(x, y) ==
    IF x = 0 THEN y
    ELSE IF y = 0 THEN x
    ELSE (IF x % 2 = 1 \/ y % 2 = 1 THEN 1 ELSE 0) + 2 * BitOr(x \div 2, y \div 2)

RECURSIVE BitXor(_, _)
\* x ^ y on naturals
BitXor(x, y) ==
    IF x = 0 THEN y
    ELSE IF y = 0 THEN x
    ELSE ((x + y) % 2) + 2 * BitXor(x \div 2, y \div 2)

(***************************************************************************)
(* The memory array and ROM images                                         *)
(***************************************************************************)
\* c.memory[a]
MemRead(m, a) == IF a \in DOMAIN m THEN m[a] ELSE 0

\* c.memory[a] = v
MemWrite(m, a, v) ==
    IF v = 0 THEN [x \in DOMAIN m \ {a} |-> m[x]]
    ELSE [x \in DOMAIN m \cup {a} |-> IF x = a THEN v ELSE m[x]]

\* The array whose non-zero bytes are those of f (zero values dropped)
MemOf(f) == [x \in {y \in DOMAIN f : f[y] # 0} |-> f[x]]

\* A []uint8 given as a sequence of bytes
Image(s) == [len |-> Len(s), nz |-> MemOf([i \in 0 .. Len(s) - 1 |-> s[i + 1]])]

\* image[i]
ImageByte(img, i) == IF i \in DOMAIN img.nz THEN img.nz[i] ELSE 0

(***************************************************************************)
(* The opcode table                                                        *)
(***************************************************************************)
opcodeList == <<
    <<"ADC", AddrImmediate, 105, 2>>, <<"ADC", AddrZeroPage, 101, 2>>,
    <<"ADC", AddrZeroPageX, 117, 2>>, <<"ADC", AddrAbsolute, 109, 3>>,
    <<"ADC", AddrAbsoluteX, 125, 3>>, <<"ADC", AddrAbsoluteY, 121, 3>>,
    <<"ADC", AddrIndirectX, 97, 3>>, <<"ADC", AddrIndirectY, 113, 3>>,
    <<"AND", AddrImmediate, 41, 2>>, <<"AND", AddrZeroPage, 37, 2>>,
    <<"AND", AddrZeroPageX, 53, 2>>, <<"AND", AddrAbsolute, 45, 3>>,
    <<"AND", AddrAbsoluteX, 61, 3>>, <<"AND", AddrAbsoluteY, 57, 3>>,
    <<"AND", AddrIndirectX, 33, 3>>, <<"AND", AddrIndirectY, 49, 3>>,
    <<"ASL", AddrImplied, 10, 1>>, <<"ASL", AddrZeroPage, 6, 2>>,
    <<"ASL", AddrZeroPageX, 22, 2>>, <<"ASL", AddrAbsolute, 14, 3>>,
    <<"ASL", AddrAbsoluteX, 30, 3>>, <<"BCC", AddrImmediate, 144, 2>>,
    <<"BCS", AddrImmediate, 176, 2>>, <<"BEQ", AddrImmediate, 240, 2>>,
    <<"BIT", AddrZeroPage, 36, 2>>, <<"BIT", AddrAbsolute, 44, 3>>,
    <<"BMI", AddrImmediate, 48, 2>>, <<"BNE", AddrImmediate, 208, 2>>,
    <<"BPL", AddrImmediate, 16, 2>>, <<"BRK", AddrImplied, 0, 1>>,
    <<"BVC", AddrImmediate, 80, 2>>, <<"BVS", AddrImmediate, 112, 2>>,
    <<"CLC", AddrImmediate, 24, 1>>, <<"CLD", AddrImmediate, 216, 1>>,
    <<"CLI", AddrImmediate, 88, 1>>, <<"CLV", AddrImmediate, 184, 1>>,
    <<"CMP", AddrImmediate, 201, 2>>, <<"CMP", AddrZeroPage, 197, 2>>,
    <<"CMP", AddrZeroPageX, 213, 2>>, <<"CMP", AddrAbsolute, 205, 3>>,
    <<"CMP", AddrAbsoluteX, 221, 3>>, <<"CMP", AddrAbsoluteY, 217, 3>>,
    <<"CMP", AddrIndirectX, 193, 2>>, <<"CMP", AddrIndirectY, 209, 2>>,
    <<"CPX", AddrImmediate, 224, 2>>, <<"CPX", AddrZeroPage, 228, 2>>,
    <<"CPX", AddrAbsolute, 236, 3>>, <<"CPY", AddrImmediate, 192, 2>>,
    <<"CPY", AddrZeroPage, 196, 2>>, <<"CPY", AddrAbsolute, 204, 3>>,
    <<"DEC", AddrZeroPage, 198, 2>>, <<"DEC", AddrZeroPageX, 214, 2>>,
    <<"DEC", AddrAbsolute, 206, 3>>, <<"DEC", AddrAbsoluteX, 222, 3>>,
    <<"DEX", AddrImplied, 202, 1>>, <<"DEY", AddrImplied, 136, 1>>,
    <<"EOR", AddrImmediate, 73, 2>>, <<"EOR", AddrZeroPage, 69, 2>>,
    <<"EOR", AddrZeroPageX, 85, 2>>, <<"EOR", AddrAbsolute, 77, 3>>,
    <<"EOR", AddrAbsoluteX, 93, 3>>, <<"EOR", AddrAbsoluteY, 89, 3>>,
    <<"EOR", AddrIndirectX, 65, 2>>, <<"EOR", AddrIndirectY, 81, 2>>,
    <<"INC", AddrZeroPage, 230, 2>>, <<"INC", AddrZeroPageX, 246, 2>>,
    <<"INC", AddrAbsolute, 238, 3>>, <<"INC", AddrAbsoluteX, 254, 3>>,
    <<"INX", AddrImplied, 232, 1>>, <<"INY", AddrImplied, 200, 1>>,
    <<"JMP", AddrAbsolute, 76, 3>>, <<"JMP", AddrIndirect, 108, 3>>,
    <<"JSR", AddrAbsolute, 32, 3>>, <<"LDA", AddrImmediate, 169, 2>>,
    <<"LDA", AddrZeroPage, 165, 2>>, <<"LDA", AddrZeroPageX, 181, 2>>,
    <<"LDA", AddrAbsolute, 173, 3>>, <<"LDA", AddrAbsoluteX, 189, 3>>,
    <<"LDA", AddrAbsoluteY, 185, 3>>, <<"LDA", AddrIndirectX, 161, 3>>,
    <<"LDA", AddrIndirectY, 177, 3>>, <<"LDX", AddrImmediate, 162, 2>>,
    <<"LDX", AddrZeroPage, 166, 2>>, <<"LDX", AddrZeroPageY, 182, 2>>,
    <<"LDX", AddrAbsolute, 174, 3>>, <<"LDX", AddrAbsoluteY, 190, 3>>,
    <<"TAX", AddrImplied, 170, 1>>
>>

\* The zero value of Instruction, which a map lookup of an absent key gives
ZeroInstruction == [name |-> "", mode |-> 0, hex |-> 0, size |-> 0]

\* The map init() builds: a later entry of the list replaces an earlier one
opcodes ==
    [h \in {opcodeList[i][3] : i \in DOMAIN opcodeList} |->
        LET i == CHOOSE k \in DOMAIN opcodeList :
                     /\ opcodeList[k][3] = h
                     /\ \A j \in DOMAIN opcodeList : opcodeList[j][3] = h => j <= k
        IN  [name |-> opcodeList[i][1], mode |-> opcodeList[i][2],
             hex |-> opcodeList[i][3], size |-> opcodeList[i][4]]]

\* opcodes[instruction]
lookupOpcode(b) == IF b \in DOMAIN opcodes THEN opcodes[b] ELSE ZeroInstruction

(***************************************************************************)
(* Helpers of the CPU (cpu.go)                                             *)
(***************************************************************************)
\* Variant: the high byte's address computed without the uint16 wrap
readAddressValueUnwrapped(c, address) ==
    LET low == MemRead(c.memory, address)
        high == MemRead(c.memory, address + 1)
    IN  BitOr(high * 256, low)

\* Variant: the two bytes taken in the other order
readAddressValueBigEndian(c, address) ==
    LET low == MemRead(c.memory, address)
        high == MemRead(c.memory, U16(address + 1))
    IN  BitOr(low * 256, high)

\* Read a little-endian 2-byte value from the given location
readAddressValue(c, address) ==
    LET low == MemRead(c.memory, address)
        high == MemRead(c.memory, U16(address + 1))
    IN  BitOr(high * 256, low)

\* Variant: the high byte taken without shifting it down
writeAddressValueUnshifted(c, address, value) ==
    LET low == U8(BitAnd(value, 255))
        high == U8(BitAnd(value, 65280))
        m1 == MemWrite(c.memory, address, low)
    IN  [c EXCEPT !.memory = MemWrite(m1, U16(address + 1), high)]

\* Write a little-endian 2-byte value to the given location
\* Variant: the high byte's index computed without the uint16 wrap
writeAddressValueUnwrapped(c, address, value) ==
    LET low == U8(BitAnd(value, 255))
        high == U8(BitAnd(value, 65280) \div 256)
        m1 == MemWrite(c.memory, address, low)
    IN  [c EXCEPT !.memory = MemWrite(m1, address + 1, high)]

writeAddressValue(c, address, value) ==
    LET low == U8(BitAnd(value, 255))
        high == U8(BitAnd(value, 65280) \div 256)
        m1 == MemWrite(c.memory, address, low)
    IN  [c EXCEPT !.memory = MemWrite(m1, U16(address + 1), high)]

\* Variant: the stack pointer advanced before the store
pushStackAdvancesFirst(c, value) ==
    [c EXCEPT !.memory = MemWrite(c.memory, U16(STACK_START + U8(c.stack_pointer + 1)), value),
              !.stack_pointer = U8(c.stack_pointer + 1)]

pushStack(c, value) ==
    [c EXCEPT !.memory = MemWrite(c.memory, U16(STACK_START + c.stack_pointer), value),
              !.stack_pointer = U8(c.stack_pointer + 1)]

pushStackAddress(c, address) ==
    LET c1 == writeAddressValue(c, U16(STACK_START + c.stack_pointer), address)
    IN  [c1 EXCEPT !.stack_pointer = U8(c.stack_pointer + 2)]

\* A pop that reads the slot before it moves the stack pointer
popStackReadsFirst(c) ==
    [c |-> [c EXCEPT !.stack_pointer = U8(c.stack_pointer - 1)],
     value |-> MemRead(c.memory, U16(STACK_START + c.stack_pointer))]


\* (c after the call, the byte returned)
popStack(c) ==
    LET c1 == [c EXCEPT !.stack_pointer = U8(c.stack_pointer - 1)]
    IN  [c |-> c1, value |-> MemRead(c1.memory, U16(STACK_START + c1.stack_pointer))]

setFlag(c, flag) == [c EXCEPT !.status = BitOr(c.status, flag)]

clearFlag(c, flag) == [c EXCEPT !.status = BitAnd(c.status, BitXor(255, flag))]

\* An update that sets N and Z and never clears them
updateStatusFlagsSetOnly(c, value) ==
    LET c1 == IF BitAnd(value, NEG_BIT) > 0 THEN setFlag(c, N_BIT_STATUS) ELSE c
    IN  IF value = 0 THEN setFlag(c1, Z_BIT_STATUS) ELSE c1

updateStatusFlags(c, value) ==
    LET c1 == IF BitAnd(value, NEG_BIT) > 0 THEN setFlag(c, N_BIT_STATUS)
              ELSE clearFlag(c, N_BIT_STATUS)
    IN  IF value = 0 THEN setFlag(c1, Z_BIT_STATUS) ELSE clearFlag(c1, Z_BIT_STATUS)

\* Variant: the sum not reduced to the zero page
modularAddCarrying(x, y) == U16(x + y)

modularAdd(x, y) == (x + y) % 256

\* A resolver that adds Y to the operand before the indirection, as for X
getParameterValueIndexedFirst(c, mode) ==
    LET param_address == c.program_counter
    IN  CASE mode = AddrImmediate -> param_address
          [] mode = AddrZeroPage -> MemRead(c.memory, param_address)
          [] mode = AddrZeroPageX ->
                 modularAdd(MemRead(c.memory, param_address), c.index_x)
          [] mode = AddrZeroPageY ->
                 modularAdd(MemRead(c.memory, param_address), c.index_y)
          [] mode = AddrAbsolute -> readAddressValue(c, param_address)
          [] mode = AddrAbsoluteX ->
                 U16(readAddressValue(c, param_address) + c.index_x)
          [] mode = AddrAbsoluteY ->
                 U16(readAddressValue(c, param_address) + c.index_y)
          [] mode = AddrIndirectX ->
                 LET zero_page_addr ==
                         modularAdd(MemRead(c.memory, param_address), c.index_x)
                 IN  readAddressValue(c, zero_page_addr)
          [] mode = AddrIndirectY ->
                 readAddressValue(c, modularAdd(MemRead(c.memory, param_address),
                                                c.index_y))
          [] OTHER -> 0

\* The address of the operand for the mode; program_counter is at the operand
getParameterValue(c, mode) ==
    LET param_address == c.program_counter
    IN  CASE mode = AddrImmediate -> param_address
          [] mode = AddrZeroPage -> MemRead(c.memory, param_address)
          [] mode = AddrZeroPageX ->
                 modularAdd(MemRead(c.memory, param_address), c.index_x)
          [] mode = AddrZeroPageY ->
                 modularAdd(MemRead(c.memory, param_address), c.index_y)
          [] mode = AddrAbsolute -> readAddressValue(c, param_address)
          [] mode = AddrAbsoluteX ->
                 U16(readAddressValue(c, param_address) + c.index_x)
          [] mode = AddrAbsoluteY ->
                 U16(readAddressValue(c, param_address) + c.index_y)
          [] mode = AddrIndirectX ->
                 LET zero_page_addr ==
                         modularAdd(MemRead(c.memory, param_address), c.index_x)
                 IN  readAddressValue(c, zero_page_addr)
          [] mode = AddrIndirectY ->
                 LET addr == readAddressValue(c, MemRead(c.memory, param_address))
                 IN  U16(c.index_y + addr)
          [] OTHER -> 0

(***************************************************************************)
(* Arithmetic helpers of the handlers (opcodes.go)                         *)
(***************************************************************************)
\* (uint8, bool) as a record
returnByteWithCarry(result) ==
    IF result > 255 THEN [value |-> U8(BitAnd(result, 255)), carry |-> TRUE]
    ELSE [value |-> U8(result), carry |-> FALSE]

\* An addition that leaves the carry-in out
addWithCarryDropped(acc, val, carry) == returnByteWithCarry(U16(acc + val))

addWithCarry(acc, val, carry) == returnByteWithCarry(U16(acc + val + carry))

shiftLeftWithCarry(val) == returnByteWithCarry(U16(val * 2))

setCarryFlag(c, carry) ==
    IF carry THEN setFlag(c, C_BIT_STATUS) ELSE clearFlag(c, C_BIT_STATUS)

\* What a handler returns, with the CPU as the handler leaves it
Returns(c, post, err) == [c |-> c, post |-> post, err |-> err]

(***************************************************************************)
(* The handlers getOpcodeImpl returns (opcodes.go). Each takes the CPU     *)
(* after the fetch (program_counter at the operand) and the addressing     *)
(* mode, and returns the CPU it leaves, the disposition and the error.     *)
(***************************************************************************)
opADC(c, mode) ==
    LET value_address == getParameterValue(c, mode)
        value == MemRead(c.memory, value_address)
        carry_bit == IF BitAnd(c.status, C_BIT_STATUS) > 0 THEN 1 ELSE 0
        r == addWithCarry(c.accumulator, value, carry_bit)
        c1 == [c EXCEPT !.accumulator = r.value]
        c2 == setCarryFlag(c1, r.carry)
    IN  Returns(updateStatusFlags(c2, r.value), InstructionContinue, ErrNil)

opAND(c, mode) ==
    LET value_address == getParameterValue(c, mode)
        value == MemRead(c.memory, value_address)
        c1 == [c EXCEPT !.accumulator = BitAnd(c.accumulator, value)]
    IN  Returns(updateStatusFlags(c1, c1.accumulator), InstructionContinue, ErrNil)

opASL(c, mode) ==
    IF mode = AddrImplied
    THEN LET r == shiftLeftWithCarry(c.accumulator)
             c1 == [c EXCEPT !.accumulator = r.value]
             c2 == updateStatusFlags(c1, c1.accumulator)
         IN  Returns(setCarryFlag(c2, r.carry), InstructionContinue, ErrNil)
    ELSE LET value_address == getParameterValue(c, mode)
             r == shiftLeftWithCarry(MemRead(c.memory, value_address))
             c1 == [c EXCEPT !.memory = MemWrite(c.memory, value_address, r.value)]
             c2 == updateStatusFlags(c1, r.value)
         IN  Returns(setCarryFlag(c2, r.carry), InstructionContinue, ErrNil)

\* Variant: the flag always tested for being set
branchOnStatusSetOnly(c, mode, flag, set) ==
    LET value_address == getParameterValue(c, mode)
        value == MemRead(c.memory, value_address)
        do_branch == BitAnd(c.status, flag) > 0
    IN  IF do_branch
        THEN Returns([c EXCEPT !.program_counter = U16(c.program_counter + value)],
                     InstructionProgramCounterUpdated, ErrNil)
        ELSE Returns(c, InstructionContinue, ErrNil)

\* Variant: the displacement added to the address past the operand
branchOnStatusPastOperand(c, mode, flag, set) ==
    LET value_address == getParameterValue(c, mode)
        value == MemRead(c.memory, value_address)
        do_branch == IF set THEN BitAnd(c.status, flag) > 0
                     ELSE BitAnd(c.status, flag) = 0
    IN  IF do_branch
        THEN Returns([c EXCEPT !.program_counter = U16(c.program_counter + 1 + value)],
                     InstructionProgramCounterUpdated, ErrNil)
        ELSE Returns(c, InstructionContinue, ErrNil)

branchOnStatus(c, mode, flag, set) ==
    LET value_address == getParameterValue(c, mode)
        value == MemRead(c.memory, value_address)
        do_branch == IF set THEN BitAnd(c.status, flag) > 0
                     ELSE BitAnd(c.status, flag) = 0
    IN  IF do_branch
        THEN Returns([c EXCEPT !.program_counter = U16(c.program_counter + value)],
                     InstructionProgramCounterUpdated, ErrNil)
        ELSE Returns(c, InstructionContinue, ErrNil)

generateBranchCallback(status, set, c, mode) == branchOnStatus(c, mode, status, set)

opBIT(c, mode) ==
    LET value_address == getParameterValue(c, mode)
        value == MemRead(c.memory, value_address)
        result == BitAnd(c.accumulator, value)
        c1 == updateStatusFlags(c, result)
    IN  Returns([c1 EXCEPT !.status = BitOr(c1.status, BitAnd(result, V_BIT_STATUS))],
                InstructionContinue, ErrNil)

\* A break that sets the B flag before it halts
opBRKSetsBreakFlag(c, mode) ==
    Returns([c EXCEPT !.status = BitOr(c.status, B_BIT_STATUS)], InstructionHalt, ErrNil)

opBRK(c, mode) == Returns(c, InstructionHalt, ErrNil)

\* A clear whose mask was not inverted: it keeps the named bit alone
generateClearCallbackUninverted(bit, c, mode) ==
    Returns([c EXCEPT !.status = BitAnd(c.status, bit)],
            InstructionContinue, ErrNil)


generateClearCallback(bit, c, mode) ==
    Returns([c EXCEPT !.status = BitAnd(c.status, BitXor(bit, 255))],
            InstructionContinue, ErrNil)

\* A compare that sets the carry when the register is at least the operand
generateCompareCallbackAtLeast(register, c, mode) ==
    LET value_address == getParameterValue(c, mode)
        value == MemRead(c.memory, value_address)
        result == U8(register - value)
        c1 == updateStatusFlags(c, result)
    IN  Returns(IF register >= value
                THEN [c1 EXCEPT !.status = BitOr(c1.status, C_BIT_STATUS)]
                ELSE c1,
                InstructionContinue, ErrNil)

generateCompareCallback(register, c, mode) ==
    LET value_address == getParameterValue(c, mode)
        value == MemRead(c.memory, value_address)
        result == U8(register - value)
        c1 == updateStatusFlags(c, result)
    IN  Returns(IF register > value
                THEN [c1 EXCEPT !.status = BitOr(c1.status, C_BIT_STATUS)]
                ELSE c1,
                InstructionContinue, ErrNil)

opDEC(c, mode) ==
    LET value_address == getParameterValue(c, mode)
        value == MemRead(c.memory, value_address)
        result == U8(value - 1)
        c1 == [c EXCEPT !.memory = MemWrite(c.memory, value_address, result)]
    IN  Returns(updateStatusFlags(c1, result), InstructionContinue, ErrNil)

opDEX(c, mode) ==
    LET result == U8(c.index_x - 1)
        c1 == [c EXCEPT !.index_x = result]
    IN  Returns(updateStatusFlags(c1, result), InstructionContinue, ErrNil)

opDEY(c, mode) ==
    LET result == U8(c.index_y - 1)
        c1 == [c EXCEPT !.index_y = result]
    IN  Returns(updateStatusFlags(c1, result), InstructionContinue, ErrNil)

opEOR(c, mode) ==
    LET value_address == getParameterValue(c, mode)
        value == MemRead(c.memory, value_address)
        c1 == [c EXCEPT !.accumulator = BitXor(c.accumulator, value)]
    IN  Returns(updateStatusFlags(c1, c1.accumulator), InstructionContinue, ErrNil)

\* Variant: the flags taken from the byte before the increment
opINCFlagsFromOld(c, mode) ==
    LET value_address == getParameterValue(c, mode)
        value == MemRead(c.memory, value_address)
        result == U8(value + 1)
        c1 == [c EXCEPT !.memory = MemWrite(c.memory, value_address, result)]
    IN  Returns(updateStatusFlags(c1, value), InstructionContinue, ErrNil)

\* `var result uint8` is 0 when it is compared with 0xff
opINC(c, mode) ==
    LET result0 == 0
        value_address == getParameterValue(c, mode)
        value == MemRead(c.memory, value_address)
        result == IF result0 = 255 THEN 0 ELSE U8(value + 1)
        c1 == [c EXCEPT !.memory = MemWrite(c.memory, value_address, result)]
    IN  Returns(updateStatusFlags(c1, result), InstructionContinue, ErrNil)

opINX(c, mode) ==
    LET c1 == IF c.index_x = 255 THEN [c EXCEPT !.index_x = 0]
              ELSE [c EXCEPT !.index_x = U8(c.index_x + 1)]
    IN  Returns(updateStatusFlags(c1, c1.index_x), InstructionContinue, ErrNil)

opINY(c, mode) ==
    LET c1 == IF c.index_y = 255 THEN [c EXCEPT !.index_y = 0]
              ELSE [c EXCEPT !.index_y = U8(c.index_y + 1)]
    IN  Returns(updateStatusFlags(c1, c1.index_y), InstructionContinue, ErrNil)

\* Variant: the operand taken as the target in both modes
opJMPDirect(c, mode) ==
    LET param0 == readAddressValue(c, c.program_counter)
    IN  Returns([c EXCEPT !.program_counter = param0],
                InstructionProgramCounterUpdated, ErrNil)

opJMP(c, mode) ==
    LET param0 == readAddressValue(c, c.program_counter)
        param == IF mode = AddrIndirect THEN readAddressValue(c, param0) ELSE param0
    IN  Returns([c EXCEPT !.program_counter = param],
                InstructionProgramCounterUpdated, ErrNil)

\* Variant: the address after the instruction pushed
opJSRPushesNext(c, mode) ==
    LET param == readAddressValue(c, c.program_counter)
        return_addr == U16(c.program_counter + 2)
        c1 == pushStackAddress(c, return_addr)
    IN  Returns([c1 EXCEPT !.program_counter = param],
                InstructionProgramCounterUpdated, ErrNil)

opJSR(c, mode) ==
    LET param == readAddressValue(c, c.program_counter)
        return_addr == U16(c.program_counter + 1)
        c1 == pushStackAddress(c, return_addr)
    IN  Returns([c1 EXCEPT !.program_counter = param],
                InstructionProgramCounterUpdated, ErrNil)

opLDA(c, mode) ==
    LET value_address == getParameterValue(c, mode)
        value == MemRead(c.memory, value_address)
        c1 == [c EXCEPT !.accumulator = value]
    IN  Returns(updateStatusFlags(c1, value), InstructionContinue, ErrNil)

opLDX(c, mode) ==
    LET value_address == getParameterValue(c, mode)
        value == MemRead(c.memory, value_address)
        c1 == [c EXCEPT !.index_x = value]
    IN  Returns(updateStatusFlags(c1, value), InstructionContinue, ErrNil)

\* A load of Y that lands in X
opLDYIntoX(c, mode) ==
    LET value_address == getParameterValue(c, mode)
        value == MemRead(c.memory, value_address)
        c1 == [c EXCEPT !.index_x = value]
    IN  Returns(updateStatusFlags(c1, value), InstructionContinue, ErrNil)


opLDY(c, mode) ==
    LET value_address == getParameterValue(c, mode)
        value == MemRead(c.memory, value_address)
        c1 == [c EXCEPT !.index_y = value]
    IN  Returns(updateStatusFlags(c1, value), InstructionContinue, ErrNil)

\* A right shift that takes the carry from the byte after the shift
opLSRCarryFromShifted(c, mode) ==
    LET value_address == getParameterValue(c, mode)
        init_value == IF mode = AddrAccumulator THEN c.accumulator
                      ELSE MemRead(c.memory, value_address)
        new_value == init_value \div 2
        c1 == IF mode = AddrAccumulator THEN [c EXCEPT !.accumulator = new_value]
              ELSE [c EXCEPT !.memory = MemWrite(c.memory, value_address, new_value)]
        c2 == IF BitAnd(new_value, 1) > 0 THEN setFlag(c1, C_BIT_STATUS)
              ELSE clearFlag(c1, C_BIT_STATUS)
    IN  Returns(updateStatusFlags(c2, new_value), InstructionContinue, ErrNil)

\* The carry comes from bit 0 of the byte before the shift
opLSR(c, mode) ==
    LET value_address == getParameterValue(c, mode)
        init_value == IF mode = AddrAccumulator THEN c.accumulator
                      ELSE MemRead(c.memory, value_address)
        new_value == init_value \div 2
        c1 == IF mode = AddrAccumulator THEN [c EXCEPT !.accumulator = new_value]
              ELSE [c EXCEPT !.memory = MemWrite(c.memory, value_address, new_value)]
        c2 == IF BitAnd(init_value, 1) > 0 THEN setFlag(c1, C_BIT_STATUS)
              ELSE clearFlag(c1, C_BIT_STATUS)
    IN  Returns(updateStatusFlags(c2, new_value), InstructionContinue, ErrNil)

opNOP(c, mode) == Returns(c, InstructionContinue, ErrNil)

\* An OR that is exclusive
opORAExclusive(c, mode) ==
    LET value == MemRead(c.memory, getParameterValue(c, mode))
        c1 == [c EXCEPT !.accumulator = BitXor(c.accumulator, value)]
    IN  Returns(updateStatusFlags(c1, c1.accumulator), InstructionContinue, ErrNil)

opORA(c, mode) ==
    LET value == MemRead(c.memory, getParameterValue(c, mode))
        c1 == [c EXCEPT !.accumulator = BitOr(c.accumulator, value)]
    IN  Returns(updateStatusFlags(c1, c1.accumulator), InstructionContinue, ErrNil)

opPHA(c, mode) == Returns(pushStack(c, c.accumulator), InstructionContinue, ErrNil)

opPHP(c, mode) == Returns(pushStack(c, c.status), InstructionContinue, ErrNil)

opPLA(c, mode) ==
    LET popped == popStack(c)
        c1 == [popped.c EXCEPT !.accumulator = popped.value]
    IN  Returns(updateStatusFlags(c1, c1.accumulator), InstructionContinue, ErrNil)

opPLP(c, mode) ==
    LET popped == popStack(c)
    IN  Returns([popped.c EXCEPT !.status = popped.value], InstructionContinue, ErrNil)

\* The old carry is added after the shift. In accumulator mode the flags
\* come from the accumulator as stored; in memory mode from the shifted byte
\* before the carry is added to the byte in memory.
opROL(c, mode) ==
    LET carry_in == IF BitAnd(c.status, C_BIT_STATUS) = C_BIT_STATUS THEN 1 ELSE 0
    IN  IF mode = AddrAccumulator
        THEN LET r == shiftLeftWithCarry(c.accumulator)
                 c1 == [c EXCEPT !.accumulator = U8(r.value + carry_in)]
                 c2 == updateStatusFlags(c1, c1.accumulator)
             IN  Returns(setCarryFlag(c2, r.carry), InstructionContinue, ErrNil)
        ELSE LET value_address == getParameterValue(c, mode)
                 r == shiftLeftWithCarry(MemRead(c.memory, value_address))
                 c1 == [c EXCEPT !.memory =
                           MemWrite(c.memory, value_address, U8(r.value + carry_in))]
                 c2 == updateStatusFlags(c1, r.value)
             IN  Returns(setCarryFlag(c2, r.carry), InstructionContinue, ErrNil)

opTAX(c, mode) ==
    LET value == c.accumulator
        c1 == [c EXCEPT !.index_x = value]
    IN  Returns(updateStatusFlags(c1, c1.index_x), InstructionContinue, ErrNil)

\* The handler of a name no case matches
opUnimplemented(c, mode) == Returns(c, InstructionHalt, ErrUnimplemented)

\* getOpcodeImpl(operation) applied to (c, mode): the switch on the mnemonic.
\* The compare handlers take the register as it is when the handler is made,
\* which is when it runs.
getOpcodeImpl(c, operation, mode) ==
    CASE operation = "ADC" -> opADC(c, mode)
      [] operation = "AND" -> opAND(c, mode)
      [] operation = "ASL" -> opASL(c, mode)
      [] operation = "BCC" -> generateBranchCallback(C_BIT_STATUS, FALSE, c, mode)
      [] operation = "BCS" -> generateBranchCallback(C_BIT_STATUS, TRUE, c, mode)
      [] operation = "BEQ" -> generateBranchCallback(Z_BIT_STATUS, TRUE, c, mode)
      [] operation = "BIT" -> opBIT(c, mode)
      [] operation = "BMI" -> generateBranchCallback(N_BIT_STATUS, TRUE, c, mode)
      [] operation = "BNE" -> generateBranchCallback(Z_BIT_STATUS, FALSE, c, mode)
      [] operation = "BPL" -> generateBranchCallback(N_BIT_STATUS, FALSE, c, mode)
      [] operation = "BRK" -> opBRK(c, mode)
      [] operation = "BVC" -> generateBranchCallback(V_BIT_STATUS, FALSE, c, mode)
      [] operation = "BVS" -> generateBranchCallback(V_BIT_STATUS, TRUE, c, mode)
      [] operation = "CLC" -> generateClearCallback(C_BIT_STATUS, c, mode)
      [] operation = "CLD" -> generateClearCallback(D_BIT_STATUS, c, mode)
      [] operation = "CLI" -> generateClearCallback(I_BIT_STATUS, c, mode)
      [] operation = "CLV" -> generateClearCallback(V_BIT_STATUS, c, mode)
      [] operation = "CMP" -> generateCompareCallback(c.accumulator, c, mode)
      [] operation = "CPX" -> generateCompareCallback(c.index_x, c, mode)
      [] operation = "CPY" -> generateCompareCallback(c.index_y, c, mode)
      [] operation = "DEC" -> opDEC(c, mode)
      [] operation = "DEX" -> opDEX(c, mode)
      [] operation = "DEY" -> opDEY(c, mode)
      [] operation = "EOR" -> opEOR(c, mode)
      [] operation = "INC" -> opINC(c, mode)
      [] operation = "INX" -> opINX(c, mode)
      [] operation = "INY" -> opINY(c, mode)
      [] operation = "JMP" -> opJMP(c, mode)
      [] operation = "JSR" -> opJSR(c, mode)
      [] operation = "LDA" -> opLDA(c, mode)
      [] operation = "LDX" -> opLDX(c, mode)
      [] operation = "LDY" -> opLDY(c, mode)
      [] operation = "LSR" -> opLSR(c, mode)
      [] operation = "NOP" -> opNOP(c, mode)
      [] operation = "ORA" -> opORA(c, mode)
      [] operation = "PHA" -> opPHA(c, mode)
      [] operation = "PHP" -> opPHP(c, mode)
      [] operation = "PLA" -> opPLA(c, mode)
      [] operation = "PLP" -> opPLP(c, mode)
      [] operation = "ROL" -> opROL(c, mode)
      [] operation = "TAX" -> opTAX(c, mode)
      [] OTHER -> opUnimplemented(c, mode)

runOpcode(c, operation) == getOpcodeImpl(c, operation.name, operation.mode)

\* Variant: the whole size added after the fetch
advanceProgramCounterBySize(operation, ran) ==
    [c |-> IF ran.post # InstructionProgramCounterUpdated
           THEN [ran.c EXCEPT !.program_counter =
                     U16(ran.c.program_counter + U16(operation.size))]
           ELSE ran.c,
     keepLooping |-> ran.post # InstructionHalt,
     err |-> ran.err,
     post |-> ran.post]

\* The end of processNextInstruction, given the table entry and what
\* runOpcode returned: the program counter moves on by size - 1 unless the
\* handler set it. uint16(size - 1) is taken on Go's unsigned size: size 0,
\* the size of the zero Instruction, gives 0xffff.
advanceProgramCounter(operation, ran) ==
    [c |-> IF ran.post # InstructionProgramCounterUpdated
           THEN [ran.c EXCEPT !.program_counter =
                     U16(ran.c.program_counter + U16(operation.size - 1))]
           ELSE ran.c,
     keepLooping |-> ran.post # InstructionHalt,
     err |-> ran.err,
     post |-> ran.post]

\* logging.LogDebug(format, v...): logger.Printf appends one line to the
\* package's buffer
LogDebug(b, line) == Append(b, line)

\* logging.Clear(): buffer.Truncate(0)
Clear == << >>

\* The line processNextInstruction logs for the iteration `it` made from c:
\* "Instruction: %#v, PC start: %#v, PC end: %#v"
instructionLine(c, it) ==
    [operation |-> lookupOpcode(MemRead(c.memory, c.program_counter)),
     init_pc |-> c.program_counter,
     program_counter |-> it.c.program_counter]

\* Variant: the fetch leaving the program counter at the opcode
processNextInstructionWithoutFetchAdvance(c) ==
    LET instruction == MemRead(c.memory, c.program_counter)
        decoded == lookupOpcode(instruction)
    IN  advanceProgramCounter(decoded, runOpcode(c, decoded))

\* One iteration of Run's loop: fetch, program_counter++, dispatch, advance
processNextInstruction(c) ==
    LET instruction == MemRead(c.memory, c.program_counter)
        decoded == lookupOpcode(instruction)
        fetched == [c EXCEPT !.program_counter = U16(c.program_counter + 1)]
    IN  advanceProgramCounter(decoded, runOpcode(fetched, decoded))

(***************************************************************************)
(* Construction, ROM loading and reset (cpu.go)                            *)
(***************************************************************************)
\* &CPU{}: every field zero
NewCPU ==
    [program_counter |-> 0, stack_pointer |-> 0, accumulator |-> 0,
     index_x |-> 0, index_y |-> 0, status |-> 0, memory |-> [a \in {} |-> 0]]

\* The value of `position` when image[i] is stored: a uint16 that wraps
romPosition(i) == U16(ROM_SEGMENT_START + i)

\* Variant: the loop stopping one byte short of the image's end
copyImageShort(m, img) ==
    LET index(a) == U16(a - ROM_SEGMENT_START)
        kept == {a \in DOMAIN m : index(a) >= img.len - 1}
        stored == {romPosition(i) : i \in {j \in DOMAIN img.nz : j < img.len - 1}}
    IN  [a \in kept \cup stored |->
            IF index(a) < img.len - 1 THEN img.nz[index(a)] ELSE m[a]]

\* The copy loop of LoadROM. With len <= MEMORY_SIZE no address is stored
\* twice, so address a ends holding image[i] for the one i < len with
\* romPosition(i) = a, which is i = (a - ROM_SEGMENT_START) mod 65536, and is
\* left alone when there is none.
copyImage(m, img) ==
    LET index(a) == U16(a - ROM_SEGMENT_START)
        kept == {a \in DOMAIN m : index(a) >= img.len}
        stored == {romPosition(i) : i \in DOMAIN img.nz}
    IN  [a \in kept \cup stored |->
            IF index(a) < img.len THEN img.nz[index(a)] ELSE m[a]]

\* (c after the call, error)
LoadROM(c, img) ==
    IF img.len > MEMORY_SIZE
    THEN [c |-> c, err |-> ErrROMTooBig]
    ELSE LET c1 == [c EXCEPT !.memory = copyImage(c.memory, img)]
         IN  [c |-> writeAddressValue(c1, PC_RESET_ADDRESS, ROM_SEGMENT_START),
              err |-> ErrNil]

\* index_y is cleared twice and index_x is not cleared
Reset(c) ==
    LET c1 == [c EXCEPT !.stack_pointer = 0, !.accumulator = 0,
                        !.index_y = 0, !.status = 0]
    IN  [c1 EXCEPT !.program_counter = readAddressValue(c1, PC_RESET_ADDRESS)]

\* Variant: the Reset made whatever LoadROM returned
LoadAndResetAlways(c, img) ==
    LET r == LoadROM(c, img)
    IN  [c |-> Reset(r.c), err |-> r.err]

LoadAndReset(c, img) ==
    LET r == LoadROM(c, img)
    IN  IF r.err # ErrNil THEN [c |-> r.c, err |-> r.err]
        ELSE [c |-> Reset(r.c), err |-> ErrNil]

(***************************************************************************)
(* The package's test harness, which assigns CPU fields directly between   *)
(* LoadAndReset and Run                                                    *)
(***************************************************************************)
RECURSIVE storeSlice(_, _, _)
\* for i, v := range s { c.memory[i+base] = v }
storeSlice(m, base, s) ==
    IF s = <<>> THEN m
    ELSE storeSlice(MemWrite(m, base, Head(s)), base + 1, Tail(s))

UPPER_MEMORY_BASE == 4096

initializeCpuState(c, test) ==
    LET m1 == storeSlice(c.memory, 0, test.memory)
        m2 == storeSlice(m1, UPPER_MEMORY_BASE, test.upper_memory)
    IN  [c EXCEPT !.memory = m2,
                  !.accumulator = test.initial_accumulator,
                  !.index_x = test.initial_index_x,
                  !.index_y = test.initial_index_y,
                  !.status = test.initial_status]

(***************************************************************************)
(* Inputs                                                                  *)
(***************************************************************************)
\* Bound on the iterations of Run's loop that one run is followed for
MaxSteps == 130

\* Opcode bytes without a table entry (0xff, 0x02, and 0xea, whose mnemonic
\* NOP has a handler but no table entry)
UnknownOpcodes == {255, 2, 234}

\* Operand byte pairs (first operand byte, second operand byte)
OperandPairs == {<<0, 0>>, <<7, 0>>, <<127, 0>>, <<2, 128>>, <<128, 1>>, <<255, 255>>}

\* One instruction: opcode and two operand bytes, zero bytes after it
InstructionImages ==
    {Image(<<op, p[1], p[2]>>) : op \in DOMAIN opcodes \cup UnknownOpcodes,
                                 p \in OperandPairs}

\* The ROMs of TestRun_Scenario, TestRun_JMP_Absolute, TestRun_JMP_Indirect,
\* TestRun_JSR and TestLoadRom, a subroutine that calls itself (JSR $8000 at
\* 0x8000, which takes the stack pointer through every even value), INC $FFFC
\* and DEC $FFFD, which change the reset vector, and the empty image
TestImages ==
    {Image(<<169, 192, 170, 232, 0>>),
     Image(<<76, 4, 128, 0, 169, 66, 0>>),
     Image(<<108, 3, 0, 0, 169, 66, 0>>),
     Image(<<32, 5, 128, 201, 185, 169, 66, 0>>),
     Image(<<32, 0, 128>>),
     Image(<<238, 252, 255>>),
     Image(<<206, 253, 255>>),
     Image(<<1, 2, 3>>),
     Image(<<>>)}

\* Images that reach the reset vector, the end of memory and (by the wrap of
\* `position`) the addresses below the ROM segment; one is too large.
\* 0x7ffc..0x7fff are the image indices stored at 0xfffc..0xffff.
LongImages ==
    {[len |-> 32766, nz |-> (0 :> 169 @@ 1 :> 66 @@ 32764 :> 17 @@ 32765 :> 34)],
     [len |-> 32768, nz |-> (0 :> 76 @@ 1 :> 254 @@ 2 :> 255 @@ 32764 :> 17
                              @@ 32765 :> 34 @@ 32766 :> 169 @@ 32767 :> 1)],
     [len |-> 32768, nz |-> (0 :> 76 @@ 1 :> 255 @@ 2 :> 255 @@ 32767 :> 173)],
     [len |-> 32768, nz |-> (0 :> 76 @@ 1 :> 255 @@ 2 :> 255 @@ 32767 :> 32)],
     [len |-> 32768, nz |-> (0 :> 76 @@ 1 :> 254 @@ 2 :> 255 @@ 32766 :> 173
                              @@ 32767 :> 254)],
     [len |-> 65536, nz |-> (0 :> 169 @@ 32768 :> 51 @@ 65535 :> 68)],
     [len |-> 65537, nz |-> (0 :> 169 @@ 65536 :> 85)]}

\* The opcode bytes of the eight branches
BranchOpcodes == {h \in DOMAIN opcodes : opcodes[h].name \in
                     {"BCC", "BCS", "BEQ", "BNE", "BMI", "BPL", "BVC", "BVS"}}

\* A branch and its displacement, as the ROMs of TestRun_RelativeBranching
BranchImages == {Image(<<op, d>>) : op \in BranchOpcodes, d \in {1, 2, 126}}

Images == InstructionImages \cup BranchImages \cup TestImages \cup LongImages

NoImage == Image(<<>>)

TestInput(mem, upper, a, x, y, p) ==
    [memory |-> mem, upper_memory |-> upper, initial_accumulator |-> a,
     initial_index_x |-> x, initial_index_y |-> y, initial_status |-> p]

\* Test inputs: one status bit or all of them over zero registers (as
\* TestRun_RelativeBranching assigns), and register and memory settings of
\* the mk* helpers
TestInputs ==
    {TestInput(<<>>, <<>>, 0, 0, 0, p) : p \in {1, 2, 64, 128, 255}}
    \cup {TestInput(<<0, 0, 0, 123>>, <<0, 0, 0, 200>>, 3, 2, 2, 0),
          TestInput(<<0, 0, 1, 16>>, <<0, 129>>, 128, 1, 1, 1),
          TestInput(<<4, 128>>, <<>>, 255, 255, 255, 0),
          TestInput(<<>>, <<>>, 127, 1, 255, 195),
          TestInput(<<255, 127>>, <<>>, 1, 0, 0, 65)}

(***************************************************************************)
(* State: the CPU value; the driver's position `ctl`; the iterations of    *)
(* the current Run; `entry`, the CPU as it was when Run was called; and    *)
(* `last`, the record of the last call: its name, the CPU before it, the   *)
(* image given to it, the error it returned (for Run's loop: of the        *)
(* iteration) and the handler's disposition.                               *)
(***************************************************************************)
NoPost == InstructionHalt - 1

\* `operation` is the Instruction a direct call of runOpcode was given and
\* `prior` the call made before it (for the other calls: none); `args` and
\* `value` are the arguments and the result of a direct call of a helper
NoPrior == [op |-> "", operation |-> ZeroInstruction, pre |-> NewCPU, args |-> << >>]

Call(op, pre, img, err, post) ==
    [op |-> op, pre |-> pre, image |-> img, err |-> err, post |-> post,
     operation |-> ZeroInstruction, prior |-> NoPrior,
     args |-> << >>, value |-> NoPost]

Init ==
    /\ cpu = NewCPU
    /\ ctl = "new"
    /\ steps = 0
    /\ entry = NewCPU
    /\ last = Call("NewCPU", NewCPU, NoImage, ErrNil, NoPost)
    /\ buffer = Clear
    /\ peer = NewCPU
    /\ outstanding = << >>

\* c.LoadROM(image)
DoLoadROM ==
    /\ ctl \in {"new", "dirty"}
    /\ \E img \in Images :
          LET r == LoadROM(cpu, img)
          IN  /\ cpu' = r.c
              /\ last' = Call("LoadROM", cpu, img, r.err, NoPost)
    /\ ctl' = "rom"
    /\ UNCHANGED <<steps, entry, buffer, peer, outstanding>>

\* c.LoadAndReset(image)
DoLoadAndReset ==
    /\ ctl \in {"new", "dirty"}
    /\ \E img \in Images :
          LET r == LoadAndReset(cpu, img)
          IN  /\ cpu' = r.c
              /\ last' = Call("LoadAndReset", cpu, img, r.err, NoPost)
    /\ ctl' = "loaded"
    /\ UNCHANGED <<steps, entry, buffer, peer, outstanding>>

\* logging.Clear() and c.Reset(), before a run or after Run has returned; the
\* next call of Run is followed from its first iteration, on an empty log
DoReset ==
    /\ ctl \in {"dirty", "rom", "ready", "returned"}
    /\ cpu' = Reset(cpu)
    /\ last' = Call("Reset", cpu, NoImage, ErrNil, NoPost)
    /\ ctl' = "reset"
    /\ steps' = 0
    /\ buffer' = Clear
    /\ UNCHANGED <<entry, peer, outstanding>>

\* initializeCpuState(c, test), before or after the load
DoInitializeCpuState ==
    /\ ctl \in {"new", "loaded"}
    /\ \E test \in TestInputs :
          /\ cpu' = initializeCpuState(cpu, test)
          /\ last' = Call("initializeCpuState", cpu, NoImage, ErrNil, NoPost)
    /\ ctl' = IF ctl = "new" THEN "dirty" ELSE "ready"
    /\ UNCHANGED <<steps, entry, buffer, peer, outstanding>>

\* Variant: the loop left only on an error
RunIterationUntilError(it) ==
    /\ cpu' = it.c
    /\ last' = Call("processNextInstruction", cpu, NoImage, it.err, it.post)
    /\ ctl' = IF it.err # ErrNil THEN "returned" ELSE "running"
    /\ buffer' = LogDebug(buffer, instructionLine(cpu, it))

\* What one iteration `it` of Run's loop leaves: Run returns err when err is
\* not nil, and nil when keepLooping is false
RunIteration(it) ==
    /\ cpu' = it.c
    /\ last' = Call("processNextInstruction", cpu, NoImage, it.err, it.post)
    /\ ctl' = IF it.err # ErrNil \/ ~it.keepLooping THEN "returned" ELSE "running"
    /\ buffer' = LogDebug(buffer, instructionLine(cpu, it))

\* c.Run(): one iteration of its loop, from the call (keepLooping = true) or
\* from the iteration before
Run ==
    /\ ctl \in {"rom", "loaded", "ready", "reset", "running"}
    /\ steps < MaxSteps
    /\ RunIteration(processNextInstruction(cpu))
    /\ entry' = IF ctl = "running" THEN entry ELSE cpu
    /\ steps' = steps + 1
    /\ UNCHANGED <<peer, outstanding>>

Next ==
    \/ DoLoadROM
    \/ DoLoadAndReset
    \/ DoReset
    \/ DoInitializeCpuState
    \/ Run

Spec == Init /\ [][Next]_vars

(***************************************************************************)
(* Direct calls of the handlers. Nine mnemonics have a handler in          *)
(* getOpcodeImpl and no entry in the opcode table, so Run never reaches    *)
(* them; runOpcode reaches them when it is given their Instruction. The    *)
(* harness loads operand bytes at 0x8000, sets registers, status and       *)
(* memory, pushes the accumulator some times, and then calls runOpcode, as *)
(* processNextInstruction does after the fetch, with PC at the operand.    *)
(***************************************************************************)
\* (mnemonic, mode, opcode byte, size) as the 6502 encodes them
unlistedList ==
    << <<"LDY", AddrImmediate, 160, 2>>, <<"LDY", AddrZeroPage, 164, 2>>,
       <<"LDY", AddrZeroPageX, 180, 2>>, <<"LDY", AddrAbsolute, 172, 3>>,
       <<"LDY", AddrAbsoluteX, 188, 3>>,
       <<"LSR", AddrAccumulator, 74, 1>>, <<"LSR", AddrZeroPage, 70, 2>>,
       <<"LSR", AddrZeroPageX, 86, 2>>, <<"LSR", AddrAbsolute, 78, 3>>,
       <<"LSR", AddrAbsoluteX, 94, 3>>,
       <<"NOP", AddrImplied, 234, 1>>,
       <<"ORA", AddrImmediate, 9, 2>>, <<"ORA", AddrZeroPage, 5, 2>>,
       <<"ORA", AddrZeroPageX, 21, 2>>, <<"ORA", AddrAbsolute, 13, 3>>,
       <<"ORA", AddrAbsoluteX, 29, 3>>, <<"ORA", AddrAbsoluteY, 25, 3>>,
       <<"ORA", AddrIndirectX, 1, 2>>, <<"ORA", AddrIndirectY, 17, 2>>,
       <<"PHA", AddrImplied, 72, 1>>, <<"PHP", AddrImplied, 8, 1>>,
       <<"PLA", AddrImplied, 104, 1>>, <<"PLP", AddrImplied, 40, 1>>,
       <<"ROL", AddrAccumulator, 42, 1>>, <<"ROL", AddrZeroPage, 38, 2>>,
       <<"ROL", AddrZeroPageX, 54, 2>>, <<"ROL", AddrAbsolute, 46, 3>>,
       <<"ROL", AddrAbsoluteX, 62, 3>> >>

UnlistedInstructions ==
    {[name |-> e[1], mode |-> e[2], hex |-> e[3], size |-> e[4]] :
        e \in {unlistedList[i] : i \in DOMAIN unlistedList}}

\* The Instructions the direct calls are made with: those the table omits,
\* and the table's own for the loads, the transfer, the left shift and the
\* logical operations, whose handlers have unlisted counterparts, and for
\* the subroutine call, which pushes as the unlisted PHA and PHP do
CalledInstructions ==
    UnlistedInstructions
    \cup {opcodes[h] : h \in {b \in DOMAIN opcodes :
                                 opcodes[b].name \in {"LDA", "LDX", "TAX", "ASL", "AND", "EOR",
                                                      "JSR"}}}

\* Bound on the pushes of the set-up: enough to take the stack pointer through
\* every value and back to the first
MaxPushes == 256

PushAccumulator == [name |-> "PHA", mode |-> AddrImplied, hex |-> 72, size |-> 1]

\* What a direct call leaves in `last`
HandlerCall(operation, r) ==
    [Call("runOpcode", cpu, NoImage, r.err, r.post)
        EXCEPT !.operation = operation,
               !.prior = [op |-> last.op, operation |-> last.operation, pre |-> last.pre,
                          args |-> last.args]]

\* LoadAndReset(operands); initializeCpuState(c, test)
setUpHandlerCall(c, operands, test) ==
    initializeCpuState(LoadAndReset(c, Image(operands)).c, test)

DoSetUp ==
    /\ ctl = "new"
    /\ \E operands \in OperandPairs, test \in TestInputs :
          /\ cpu' = setUpHandlerCall(cpu, operands, test)
          /\ last' = Call("setUp", cpu, Image(operands), ErrNil, NoPost)
    /\ ctl' = "set"
    /\ UNCHANGED <<steps, entry, buffer, peer, outstanding>>

\* A push of the set-up: c.runOpcode(PHA)
DoPush ==
    /\ ctl = "set"
    /\ steps < MaxPushes
    /\ cpu' = runOpcode(cpu, PushAccumulator).c
    /\ last' = HandlerCall(PushAccumulator, runOpcode(cpu, PushAccumulator))
    /\ steps' = steps + 1
    /\ UNCHANGED <<ctl, entry, buffer, peer, outstanding>>

\* c.runOpcode(operation), after the set-up and its pushes
DoRunOpcode ==
    /\ ctl = "set"
    /\ \E operation \in CalledInstructions :
          /\ cpu' = runOpcode(cpu, operation).c
          /\ last' = HandlerCall(operation, runOpcode(cpu, operation))
    /\ ctl' = "called"
    /\ UNCHANGED <<steps, entry, buffer, peer, outstanding>>

HandlerNext ==
    \/ DoSetUp
    \/ DoPush
    \/ DoRunOpcode

HandlerSpec == Init /\ [][HandlerNext]_vars

(***************************************************************************)
(* Two CPU instances in one process. Each is made by NewCPU and loaded     *)
(* with its own ROM; then fetch-execute steps of the two are taken in any  *)
(* order. Both step through the same package-level logging buffer.         *)
(***************************************************************************)
\* Bound on the lines the two instances log between them
MaxLogLines == 4

\* c.LoadAndReset(image) on the first instance
DoLoadCpu ==
    /\ ctl = "new"
    /\ \E img \in TestImages :
          /\ cpu' = LoadAndReset(cpu, img).c
          /\ last' = Call("LoadAndReset", cpu, img, ErrNil, NoPost)
    /\ ctl' = "one"
    /\ UNCHANGED <<steps, entry, buffer, peer, outstanding>>

\* c.LoadAndReset(image) on the second instance
DoLoadPeer ==
    /\ ctl = "one"
    /\ \E img \in TestImages :
          /\ peer' = LoadAndReset(peer, img).c
          /\ last' = Call("peer.LoadAndReset", peer, img, ErrNil, NoPost)
    /\ ctl' = "pair"
    /\ UNCHANGED <<cpu, steps, entry, buffer, outstanding>>

\* What the iteration `it` made from the instance c leaves outside of c
StepLogs(c, it, name) ==
    /\ last' = Call(name, c, NoImage, it.err, it.post)
    /\ buffer' = LogDebug(buffer, instructionLine(c, it))

\* c.processNextInstruction() on the first instance
StepCpu ==
    /\ ctl = "pair"
    /\ Len(buffer) < MaxLogLines
    /\ cpu' = processNextInstruction(cpu).c
    /\ StepLogs(cpu, processNextInstruction(cpu), "processNextInstruction")
    /\ UNCHANGED <<ctl, steps, entry, peer, outstanding>>

\* c.processNextInstruction() on the second instance
StepPeer ==
    /\ ctl = "pair"
    /\ Len(buffer) < MaxLogLines
    /\ peer' = processNextInstruction(peer).c
    /\ StepLogs(peer, processNextInstruction(peer), "peer.processNextInstruction")
    /\ UNCHANGED <<ctl, steps, entry, cpu, outstanding>>

ConcurrentNext ==
    \/ DoLoadCpu
    \/ DoLoadPeer
    \/ StepCpu
    \/ StepPeer

ConcurrentSpec == Init /\ [][ConcurrentNext]_vars

(***************************************************************************)
(* Direct calls of the helpers of cpu.go, as code of the package can make  *)
(* them: after the set-up of a test, at most one writeAddressValue, and    *)
(* then one call of updateStatusFlags, getParameterValue or                *)
(* readAddressValue.                                                       *)
(***************************************************************************)
Bytes == 0 .. 255

\* Test inputs that set the status alone, to each of its values
StatusInputs == {TestInput(<< >>, << >>, 0, 0, 0, p) : p \in Bytes}

\* The addressing modes of type AddressMode
AddressModes == AddrImmediate .. AddrIndirect

\* Addresses of words: in page zero and at its end, at the end of the stack
\* page, at the reset vector and at the end of memory
WordAddresses == {0, 127, 254, 255, 511, PC_RESET_ADDRESS, MEMORY_SIZE - 1}

\* 16-bit values with zero and non-zero low and high bytes
Words == {0, 1, 255, 256, 4660, 33023, ROM_SEGMENT_START, MEMORY_SIZE - 1}

\* What a direct call of a helper with arguments `args` that returned `value`
\* leaves in `last`
HelperCall(name, args, value) ==
    [Call(name, cpu, NoImage, ErrNil, NoPost)
        EXCEPT !.args = args,
               !.value = value,
               !.prior = [op |-> last.op, operation |-> last.operation, pre |-> last.pre,
                          args |-> last.args]]

DoPrepare ==
    /\ ctl = "new"
    /\ \/ \E operands \in OperandPairs, test \in TestInputs :
             /\ cpu' = setUpHandlerCall(cpu, operands, test)
             /\ last' = Call("setUp", cpu, Image(operands), ErrNil, NoPost)
       \/ \E test \in StatusInputs :
             /\ cpu' = setUpHandlerCall(cpu, <<0, 0>>, test)
             /\ last' = Call("setUp", cpu, Image(<<0, 0>>), ErrNil, NoPost)
    /\ ctl' = "prepared"
    /\ UNCHANGED <<steps, entry, buffer, peer, outstanding>>

\* c.writeAddressValue(address, value)
DoWriteAddressValue ==
    /\ ctl = "prepared"
    /\ \E address \in WordAddresses, value \in Words :
          /\ cpu' = writeAddressValue(cpu, address, value)
          /\ last' = HelperCall("writeAddressValue", <<address, value>>, NoPost)
    /\ ctl' = "written"
    /\ UNCHANGED <<steps, entry, buffer, peer, outstanding>>

\* c.readAddressValue(address)
DoReadAddressValue ==
    /\ ctl \in {"prepared", "written"}
    /\ \E address \in WordAddresses :
          last' = HelperCall("readAddressValue", <<address>>,
                             readAddressValue(cpu, address))
    /\ ctl' = "called"
    /\ UNCHANGED <<cpu, steps, entry, buffer, peer, outstanding>>

\* c.getParameterValue(mode)
DoGetParameterValue ==
    /\ ctl \in {"prepared", "written"}
    /\ \E mode \in AddressModes :
          last' = HelperCall("getParameterValue", <<mode>>,
                             getParameterValue(cpu, mode))
    /\ ctl' = "called"
    /\ UNCHANGED <<cpu, steps, entry, buffer, peer, outstanding>>

\* c.updateStatusFlags(value)
DoUpdateStatusFlags ==
    /\ ctl = "prepared"
    /\ \E value \in Bytes :
          /\ cpu' = updateStatusFlags(cpu, value)
          /\ last' = HelperCall("updateStatusFlags", <<value>>, NoPost)
    /\ ctl' = "called"
    /\ UNCHANGED <<steps, entry, buffer, peer, outstanding>>

HelperNext ==
    \/ DoPrepare
    \/ DoWriteAddressValue
    \/ DoReadAddressValue
    \/ DoGetParameterValue
    \/ DoUpdateStatusFlags

HelperSpec == Init /\ [][HelperNext]_vars

(***************************************************************************)
(* Sequences of stack calls. The harness sets the CPU up, fills the stack  *)
(* with pushes of the accumulator, and then calls the handlers of PHA,     *)
(* PHP, PLA and PLP in any order. `outstanding` is the harness's record of *)
(* the bytes it pushed and has not pulled yet, the oldest first; it pushes *)
(* only while fewer bytes are outstanding than the stack pointer has       *)
(* values, and pulls only while one is.                                    *)
(***************************************************************************)
\* Bound on the calls that follow the filling pushes
MaxStackCalls == 3

\* The values of the uint8 stack pointer
StackSlots == Cardinality(Bytes)

StackInstructions ==
    {i \in UnlistedInstructions : i.name \in {"PHA", "PHP", "PLA", "PLP"}}

\* The register a push hands to pushStack
PushedByte(c, operation) ==
    IF operation.name = "PHA" THEN c.accumulator ELSE c.status

DoStackSetUp ==
    /\ ctl = "new"
    /\ \E test \in TestInputs :
          /\ cpu' = setUpHandlerCall(cpu, <<0, 0>>, test)
          /\ last' = Call("setUp", cpu, Image(<<0, 0>>), ErrNil, NoPost)
    /\ ctl' = "filling"
    /\ UNCHANGED <<steps, entry, buffer, peer, outstanding>>

\* c.runOpcode(PHA), while the stack is filled
DoFill ==
    /\ ctl = "filling"
    /\ Len(outstanding) < StackSlots
    /\ cpu' = runOpcode(cpu, PushAccumulator).c
    /\ last' = HandlerCall(PushAccumulator, runOpcode(cpu, PushAccumulator))
    /\ outstanding' = Append(outstanding, cpu.accumulator)
    /\ UNCHANGED <<ctl, steps, entry, buffer, peer>>

\* c.runOpcode(operation) for a push or a pull
DoStackCall ==
    /\ ctl \in {"filling", "stack"}
    /\ steps < MaxStackCalls
    /\ \E operation \in StackInstructions :
          /\ IF operation.name \in {"PHA", "PHP"}
                THEN /\ Len(outstanding) < StackSlots
                     /\ outstanding' = Append(outstanding, PushedByte(cpu, operation))
                ELSE /\ Len(outstanding) > 0
                     /\ outstanding' = SubSeq(outstanding, 1, Len(outstanding) - 1)
          /\ cpu' = runOpcode(cpu, operation).c
          /\ last' = HandlerCall(operation, runOpcode(cpu, operation))
    /\ ctl' = "stack"
    /\ steps' = steps + 1
    /\ UNCHANGED <<entry, buffer, peer>>

StackNext ==
    \/ DoStackSetUp
    \/ DoFill
    \/ DoStackCall

StackSpec == Init /\ [][StackNext]_vars

(***************************************************************************)
(* Runs of straight-line programs. The image is a sequence of instructions *)
(* whose handlers return InstructionContinue and write no memory, ended by *)
(* nothing or by a byte that has no table entry; NewCPU leaves the memory  *)
(* after it zero. The harness loads it, may set registers and low memory,  *)
(* and calls Run; once Run is called its loop goes on until it returns.    *)
(***************************************************************************)
\* Bound on the instructions of a program
MaxProgram == 3

\* LDA #$C0, TAX, INX, ADC #$07, LDA $8000
StraightLineInstructions ==
    {<<169, 192>>, <<170>>, <<232>>, <<105, 7>>, <<173, 0, 128>>}

\* The byte sequences of at most n instructions
RECURSIVE Programs(_)
Programs(n) ==
    IF n = 0 THEN {<< >>}
    ELSE LET shorter == Programs(n - 1)
         IN  shorter \cup {p \o i : p \in shorter, i \in StraightLineInstructions}

StraightLineImages ==
    {Image(p \o end) : p \in Programs(MaxProgram), end \in {<< >>, <<255>>}}

\* c.LoadAndReset(image) on the new CPU
DoLoadProgram ==
    /\ ctl = "new"
    /\ \E img \in StraightLineImages :
          LET r == LoadAndReset(cpu, img)
          IN  /\ cpu' = r.c
              /\ last' = Call("LoadAndReset", cpu, img, r.err, NoPost)
    /\ ctl' = "loaded"
    /\ UNCHANGED <<steps, entry, buffer, peer, outstanding>>

\* initializeCpuState(c, test), after the load
DoSetRegisters ==
    /\ ctl = "loaded"
    /\ DoInitializeCpuState

TerminationNext ==
    \/ DoLoadProgram
    \/ DoSetRegisters
    \/ Run

\* Fairness of Run's loop: while the loop runs, `for keepLooping` takes its
\* next iteration. An iteration is the one step that counts `steps` up while
\* ctl = "running", so the condition is stated on the counter.
TerminationSpec ==
    /\ Init
    /\ [][TerminationNext]_vars
    /\ WF_steps(ctl = "running" /\ steps < MaxSteps /\ steps' = steps + 1)

(***************************************************************************)
(* What the claims below speak of                                          *)
(***************************************************************************)
\* The last call was one iteration of Run's loop
Stepped == last.op = "processNextInstruction"

\* The address the iteration fetched from, and the byte it fetched
PC0 == last.pre.program_counter

FetchedByte == MemRead(last.pre.memory, PC0)

\* The operand bytes of the fetched instruction, as they were before it
Operand1 == MemRead(last.pre.memory, U16(PC0 + 1))

Operand2 == MemRead(last.pre.memory, U16(PC0 + 2))

OperandWord == Operand1 + 256 * Operand2

InTable(b) == b \in DOMAIN opcodes

Mnemonic(b) == IF InTable(b) THEN opcodes[b].name ELSE ""

\* Status bit `bit` (a power of two) of the status byte p is 1
FlagSet(p, bit) == (p \div bit) % 2 = 1

\* The flag condition of each branch mnemonic
BranchCondition(name, p) ==
    CASE name = "BCC" -> ~FlagSet(p, 1)
      [] name = "BCS" -> FlagSet(p, 1)
      [] name = "BEQ" -> FlagSet(p, 2)
      [] name = "BNE" -> ~FlagSet(p, 2)
      [] name = "BMI" -> FlagSet(p, 128)
      [] name = "BPL" -> ~FlagSet(p, 128)
      [] name = "BVC" -> ~FlagSet(p, 64)
      [] name = "BVS" -> FlagSet(p, 64)
      [] OTHER -> FALSE

\* A byte read as a two's-complement 8-bit value
SignedByte(v) == IF v >= 128 THEN v - 256 ELSE v

\* The CPU with its program counter left out of the comparison
ExceptPC(c) == [c EXCEPT !.program_counter = 0]

\* The last call was a load that returned no error
Loaded == last.op \in {"LoadROM", "LoadAndReset"} /\ last.err = ErrNil

(***************************************************************************)
(* C1. For every opcode of the table whose handler does not return         *)
(* PCUpdated (Continue, and BRK's Halt), one fetch-execute iteration        *)
(* started at PC0 ends with PC = (PC0 + size) mod 65536, size being the    *)
(* size the table gives the opcode.                                        *)
(***************************************************************************)
C1_PCAdvancesBySize ==
    (Stepped /\ InTable(FetchedByte)
        /\ last.post # InstructionProgramCounterUpdated)
    => cpu.program_counter = (PC0 + opcodes[FetchedByte].size) % 65536

\* A three-byte instruction (LDA absolute) fetched at 0xffff leaves PC = 2
C1_Witness ==
    /\ Stepped
    /\ FetchedByte = 173
    /\ last.post = InstructionContinue
    /\ PC0 = 65535
    /\ cpu.program_counter = 2

(***************************************************************************)
(* C2. When the fetched byte has no table entry, the iteration returns the *)
(* "Unimplemented opcode" error and the only change of state is            *)
(* PC = PC0 + 1: A, X, Y, S, P and memory are as before.                   *)
(***************************************************************************)
C2_UnknownOpcodeAdvancesPC ==
    (Stepped /\ ~InTable(FetchedByte))
    => /\ last.err = ErrUnimplemented
       /\ ctl = "returned"
       /\ cpu = [last.pre EXCEPT !.program_counter = U16(PC0 + 1)]

(***************************************************************************)
(* C3. Run stops exactly at the first fetched opcode that is BRK or has no *)
(* table entry: an iteration returns if and only if it fetched one of      *)
(* them, with nil for BRK and the "Unimplemented opcode" error for an      *)
(* absent opcode; after any other table entry the loop goes on; and Run    *)
(* has returned only in the state its stopping iteration left.             *)
(***************************************************************************)
C3_RunStopsOnBRKOrUnknown ==
    /\ Stepped =>
          /\ ctl = "returned" <=>
                (Mnemonic(FetchedByte) = "BRK" \/ ~InTable(FetchedByte))
          /\ ctl # "returned" => (ctl = "running" /\ last.err = ErrNil)
          /\ ctl = "returned" =>
                /\ last.err = ErrNil <=> Mnemonic(FetchedByte) = "BRK"
                /\ last.err = ErrUnimplemented <=> ~InTable(FetchedByte)
    /\ ctl = "returned" => Stepped

\* Run returned the error at its second iteration, after one instruction
C3_Witness ==
    /\ ctl = "returned"
    /\ steps = 2
    /\ last.err = ErrUnimplemented
    /\ ~InTable(FetchedByte)

(***************************************************************************)
(* C4. A branch at PC0 whose condition holds leaves                        *)
(* PC = (PC0 + 2 + signed_offset) mod 65536, the operand byte being read   *)
(* as a two's-complement value.                                            *)
(***************************************************************************)
C4_TakenBranchTarget ==
    (Stepped /\ FetchedByte \in BranchOpcodes
        /\ BranchCondition(Mnemonic(FetchedByte), last.pre.status))
    => cpu.program_counter = (PC0 + 2 + SignedByte(Operand1)) % 65536

(***************************************************************************)
(* C5. A branch is taken (its handler returns PCUpdated) exactly when its  *)
(* flag condition holds; when it does not hold PC = PC0 + 2; in both cases *)
(* nothing but PC changes: A, X, Y, S, P and memory are as before.         *)
(***************************************************************************)
C5_BranchTakenIffCondition ==
    (Stepped /\ FetchedByte \in BranchOpcodes)
    => LET holds == BranchCondition(Mnemonic(FetchedByte), last.pre.status)
       IN  /\ last.post = InstructionProgramCounterUpdated <=> holds
           /\ ~holds => /\ last.post = InstructionContinue
                        /\ cpu.program_counter = (PC0 + 2) % 65536
           /\ ExceptPC(cpu) = ExceptPC(last.pre)

\* BVS taken with V set among other flags, and registers that are not zero
C5_Witness ==
    /\ Stepped
    /\ Mnemonic(FetchedByte) = "BVS"
    /\ last.post = InstructionProgramCounterUpdated
    /\ last.pre.status = 195
    /\ last.pre.accumulator = 127
    /\ cpu.program_counter # (PC0 + 2) % 65536

(***************************************************************************)
(* C6. Run entered at 0x8000 on a memory holding only one branch with      *)
(* operand d, 0 <= d <= 127, and the reset vector (what LoadAndReset of     *)
(* the two-byte ROM leaves) returns nil with PC = 0x8000 + 2 + d when the   *)
(* branch condition holds at entry and with PC = 0x8003 when it does not.  *)
(***************************************************************************)
BranchROM(c) ==
    /\ c.program_counter = ROM_SEGMENT_START
    /\ MemRead(c.memory, ROM_SEGMENT_START) \in BranchOpcodes
    /\ MemRead(c.memory, ROM_SEGMENT_START + 1) <= 127
    /\ DOMAIN c.memory \subseteq
           {ROM_SEGMENT_START, ROM_SEGMENT_START + 1, PC_RESET_ADDRESS + 1}
    /\ MemRead(c.memory, PC_RESET_ADDRESS + 1) = 128

C6_BranchProgramFinalPC ==
    (ctl = "returned" /\ BranchROM(entry))
    => LET d == MemRead(entry.memory, ROM_SEGMENT_START + 1)
           name == Mnemonic(MemRead(entry.memory, ROM_SEGMENT_START))
       IN  /\ last.err = ErrNil
           /\ cpu.program_counter =
                 IF BranchCondition(name, entry.status)
                 THEN ROM_SEGMENT_START + 2 + d
                 ELSE ROM_SEGMENT_START + 3

\* TestRun_BCC_CarryClear: ROM 90 07, carry clear, final PC 0x8009
C6_Witness ==
    /\ ctl = "returned"
    /\ BranchROM(entry)
    /\ MemRead(entry.memory, ROM_SEGMENT_START) = 144
    /\ MemRead(entry.memory, ROM_SEGMENT_START + 1) = 7
    /\ entry.status = 128
    /\ cpu.program_counter = 32777

(***************************************************************************)
(* C7. JSR at PC0 with operand word T stores the return address PC0 + 2    *)
(* (as a 16-bit value) low byte at 0x0100 + S and high byte at             *)
(* 0x0100 + S + 1, S being the stack pointer before; advances S by 2       *)
(* modulo 256; sets PC = T; and returns PCUpdated, so the loop leaves PC   *)
(* at T.                                                                   *)
(***************************************************************************)
C7_JSRPushesReturnAddress ==
    (Stepped /\ Mnemonic(FetchedByte) = "JSR")
    => LET S == last.pre.stack_pointer
           ret == (PC0 + 2) % 65536
       IN  /\ MemRead(cpu.memory, 256 + S) = ret % 256
           /\ MemRead(cpu.memory, 256 + S + 1) = ret \div 256
           /\ cpu.stack_pointer = (S + 2) % 256
           /\ cpu.program_counter = OperandWord
           /\ last.post = InstructionProgramCounterUpdated

\* The 128th nested JSR, with S = 0xfe: the bytes land at 0x01fe and 0x01ff
\* and S wraps to 0
C7_Witness ==
    /\ Stepped
    /\ Mnemonic(FetchedByte) = "JSR"
    /\ last.pre.stack_pointer = 254
    /\ PC0 = 32768
    /\ MemRead(cpu.memory, 510) = 2
    /\ MemRead(cpu.memory, 511) = 128
    /\ cpu.stack_pointer = 0
    /\ cpu.program_counter = 32768

(***************************************************************************)
(* C8. JMP absolute sets PC to its little-endian operand word and JMP      *)
(* indirect to the little-endian word stored at the address the operand    *)
(* gives (its high byte at that address plus one, modulo 65536); nothing   *)
(* else changes: A, X, Y, S, P and memory are as before.                   *)
(***************************************************************************)
C8_JMPSetsPC ==
    (Stepped /\ Mnemonic(FetchedByte) = "JMP")
    => LET target ==
               IF opcodes[FetchedByte].mode = AddrIndirect
               THEN MemRead(last.pre.memory, OperandWord)
                    + 256 * MemRead(last.pre.memory, (OperandWord + 1) % 65536)
               ELSE OperandWord
       IN  /\ cpu = [last.pre EXCEPT !.program_counter = target]
           /\ last.post = InstructionProgramCounterUpdated

\* JMP ($8002) at 0x8000: the word at 0x8002 is 80 00, so PC = 0x0080
C8_Witness ==
    /\ Stepped
    /\ FetchedByte = 108
    /\ PC0 = 32768
    /\ OperandWord = 32770
    /\ cpu.program_counter = 128

(***************************************************************************)
(* C9. After LoadROM of an image of at most 65536 bytes, which returns no  *)
(* error, memory[0x8000 + i] = image[i] for every i < len(image) with      *)
(* 0x8000 + i <= 0xffff.                                                   *)
(***************************************************************************)
C9_ImageCopiedEverywhere ==
    (last.op \in {"LoadROM", "LoadAndReset"} /\ last.image.len <= 65536)
    => /\ last.err = ErrNil
       /\ \A i \in 0 .. last.image.len - 1 :
             32768 + i <= 65535
             => MemRead(cpu.memory, 32768 + i) = ImageByte(last.image, i)

(***************************************************************************)
(* C9, amended. The same for every such i other than the two whose address *)
(* is the reset vector, 0xfffc and 0xfffd.                                 *)
(***************************************************************************)
C9_ImageCopiedBelowVector ==
    (last.op \in {"LoadROM", "LoadAndReset"} /\ last.image.len <= 65536)
    => /\ last.err = ErrNil
       /\ \A i \in 0 .. last.image.len - 1 :
             (32768 + i <= 65535 /\ 32768 + i \notin {65532, 65533})
             => MemRead(cpu.memory, 32768 + i) = ImageByte(last.image, i)

\* An image of 32768 bytes over a memory that was not zero: its bytes at the
\* vector are replaced, the two after it are stored
C9_Witness ==
    /\ last.op = "LoadROM"
    /\ last.err = ErrNil
    /\ last.image.len = 32768
    /\ ImageByte(last.image, 32764) = 17
    /\ MemRead(cpu.memory, 65532) = 0
    /\ MemRead(cpu.memory, 65534) = 169
    /\ MemRead(cpu.memory, 65535) = 1
    /\ MemRead(last.pre.memory, 3) = 123

(***************************************************************************)
(* C10. After a LoadROM or LoadAndReset that returned no error the reset   *)
(* vector holds 0x8000 little-endian (0x00 at 0xfffc, 0x80 at 0xfffd), and *)
(* after such a LoadAndReset PC = 0x8000.                                  *)
(***************************************************************************)
C10_ResetVector ==
    Loaded
    => /\ MemRead(cpu.memory, 65532) = 0
       /\ MemRead(cpu.memory, 65533) = 128
       /\ last.op = "LoadAndReset" => cpu.program_counter = 32768

\* LoadAndReset of an image whose own bytes at the vector are 11 22
C10_Witness ==
    /\ last.op = "LoadAndReset"
    /\ last.err = ErrNil
    /\ ImageByte(last.image, 32764) = 17
    /\ ImageByte(last.image, 32765) = 34
    /\ cpu.program_counter = 32768
    /\ MemRead(cpu.memory, 65533) = 128

(***************************************************************************)
(* C11. LoadROM and LoadAndReset given an image of more than 65536 bytes   *)
(* return the "ROM image too big" error and leave every register and every *)
(* memory byte as it was; LoadAndReset makes no Reset then.                *)
(***************************************************************************)
C11_TooBigImageRejected ==
    (last.op \in {"LoadROM", "LoadAndReset"} /\ last.image.len > 65536)
    => /\ last.err = ErrROMTooBig
       /\ cpu = last.pre

\* LoadAndReset of 65537 bytes on a CPU whose registers, status and memory
\* are not zero: a Reset would have cleared them
C11_Witness ==
    /\ last.op = "LoadAndReset"
    /\ last.image.len = 65537
    /\ last.err = ErrROMTooBig
    /\ cpu.accumulator = 127
    /\ cpu.status = 195
    /\ cpu.index_y = 255

(***************************************************************************)
(* C12. Reset, called in any CPU state (by itself or at the end of a       *)
(* LoadAndReset that returned no error), leaves S = 0, A = 0, X = 0, Y = 0 *)
(* and P = 0.                                                              *)
(***************************************************************************)
ResetMade ==
    \/ last.op = "Reset"
    \/ last.op = "LoadAndReset" /\ last.err = ErrNil

C12_ResetZeroesRegisters ==
    ResetMade
    => /\ cpu.stack_pointer = 0
       /\ cpu.accumulator = 0
       /\ cpu.index_x = 0
       /\ cpu.index_y = 0
       /\ cpu.status = 0

(***************************************************************************)
(* C13. Reset sets PC to the little-endian word stored at 0xfffc/0xfffd,   *)
(* PC = memory[0xfffc] + 256 * memory[0xfffd], whatever the memory holds,  *)
(* and changes no memory byte.                                             *)
(***************************************************************************)
C13_ResetReadsVector ==
    last.op = "Reset"
    => /\ cpu.program_counter =
             MemRead(last.pre.memory, 65532) + 256 * MemRead(last.pre.memory, 65533)
       /\ cpu.memory = last.pre.memory

\* Reset after a program has run INC $FFFC: the vector holds 01 80
C13_Witness ==
    /\ last.op = "Reset"
    /\ MemRead(last.pre.memory, 65532) = 1
    /\ MemRead(last.pre.memory, 65533) = 128
    /\ cpu.program_counter = 32769

(***************************************************************************)
(* C14. Every entry of the opcode table has the size its addressing mode   *)
(* fixes: 1 for implied/accumulator; 2 for immediate (and relative, which  *)
(* the table writes as immediate), zero-page, zero-page indexed,           *)
(* (Indirect,X) and (Indirect),Y; 3 for absolute and absolute indexed.     *)
(* The indirect mode of JMP, which the statement does not name, is left    *)
(* free.                                                                   *)
(***************************************************************************)
SizeOfMode(mode) ==
    CASE mode = AddrImplied -> {1}
      [] mode \in {AddrImmediate, AddrZeroPage, AddrZeroPageX, AddrZeroPageY,
                   AddrIndirectX, AddrIndirectY} -> {2}
      [] mode \in {AddrAbsolute, AddrAbsoluteX, AddrAbsoluteY} -> {3}
      [] OTHER -> {1, 2, 3}

\* Stated of the entry each iteration decodes; the images fetch every opcode
\* of the table
C14_TableSizesFollowMode ==
    (Stepped /\ InTable(FetchedByte))
    => opcodes[FetchedByte].size \in SizeOfMode(opcodes[FetchedByte].mode)

(***************************************************************************)
(* What the claims about single instructions speak of: the instruction     *)
(* last executed, by an iteration of Run or by a direct call of runOpcode, *)
(* the CPU as its handler found it (PC at the operand), and the address    *)
(* its addressing mode resolves to                                         *)
(***************************************************************************)
Executed ==
    \/ last.op = "runOpcode"
    \/ Stepped /\ InTable(FetchedByte)

Operation == IF last.op = "runOpcode" THEN last.operation ELSE lookupOpcode(FetchedByte)

AtOperand ==
    IF last.op = "runOpcode" THEN last.pre
    ELSE [last.pre EXCEPT !.program_counter = U16(PC0 + 1)]

ResolvedAddress == getParameterValue(AtOperand, Operation.mode)

OnAccumulator ==
    \/ Operation.name = "ASL" /\ Operation.mode = AddrImplied
    \/ Operation.name \in {"LSR", "ROL"} /\ Operation.mode = AddrAccumulator

\* The byte the instruction left in its destination
DestinationByte ==
    CASE Operation.name \in {"LDA", "ADC", "AND", "EOR", "ORA", "PLA"} -> cpu.accumulator
      [] Operation.name \in {"LDX", "TAX", "INX", "DEX"} -> cpu.index_x
      [] Operation.name \in {"LDY", "INY", "DEY"} -> cpu.index_y
      [] Operation.name \in {"ASL", "LSR", "ROL"} /\ OnAccumulator -> cpu.accumulator
      [] OTHER -> MemRead(cpu.memory, ResolvedAddress)

NZOperations ==
    {"LDA", "LDX", "LDY", "TAX", "ADC", "AND", "EOR", "ORA", "ASL", "LSR", "ROL",
     "INC", "DEC", "INX", "INY", "DEX", "DEY", "PLA"}

(***************************************************************************)
(* C15. After each of LDA, LDX, LDY, TAX, ADC, AND, EOR, ORA, ASL, LSR,    *)
(* ROL, INC, DEC, INX, INY, DEX, DEY, PLA the N flag equals bit 7 of the   *)
(* byte the instruction stored in its register or memory destination and   *)
(* the Z flag equals (that byte = 0).                                      *)
(***************************************************************************)
C15_NZFollowStoredByte ==
    (Executed /\ Operation.name \in NZOperations)
    => /\ FlagSet(cpu.status, 128) <=> DestinationByte >= 128
       /\ FlagSet(cpu.status, 2) <=> DestinationByte = 0

(***************************************************************************)
(* C16. For Zero-page,X and Zero-page,Y addressing with operand byte d the *)
(* effective address is (d + X) mod 256, respectively (d + Y) mod 256, and *)
(* so lies in 0x0000..0x00ff, for every d and every index value: that is   *)
(* the address the mode resolves to, the one a load reads and the only one *)
(* a read-modify-write instruction changes.                                *)
(***************************************************************************)
ZeroPageIndexed == Executed /\ Operation.mode \in {AddrZeroPageX, AddrZeroPageY}

\* (d + index) mod 256 from the operand byte and the register before
WrappedAddress ==
    LET d == MemRead(AtOperand.memory, AtOperand.program_counter)
        index == IF Operation.mode = AddrZeroPageX THEN last.pre.index_x
                 ELSE last.pre.index_y
    IN  (d + index) % 256

C16_ZeroPageIndexWraps ==
    ZeroPageIndexed
    => /\ ResolvedAddress = WrappedAddress
       /\ ResolvedAddress \in 0 .. 255
       /\ Operation.name = "LDA"
             => cpu.accumulator = MemRead(last.pre.memory, WrappedAddress)
       /\ Operation.name = "LDX"
             => cpu.index_x = MemRead(last.pre.memory, WrappedAddress)
       /\ \A a \in (DOMAIN cpu.memory \cup DOMAIN last.pre.memory) \ {WrappedAddress} :
             MemRead(cpu.memory, a) = MemRead(last.pre.memory, a)

\* INC $FF,X with X = 2 increments the byte at 0x0001, not the one at 0x0101
C16_Witness ==
    /\ Stepped
    /\ FetchedByte = 246
    /\ Operand1 = 255
    /\ last.pre.index_x = 2
    /\ MemRead(last.pre.memory, 1) = 0
    /\ MemRead(cpu.memory, 1) = 1
    /\ MemRead(cpu.memory, 257) = 0

(***************************************************************************)
(* C17. INX, INY, DEX, DEY replace the register, and INC, DEC the memory   *)
(* byte at the resolved address, by (old + 1) mod 256 respectively         *)
(* (old - 1) mod 256 for every old value; N and Z follow the new value and *)
(* C is as before.                                                         *)
(***************************************************************************)
StepOperations == {"INX", "INY", "DEX", "DEY", "INC", "DEC"}

\* The byte in the destination before the instruction
OldByte ==
    CASE Operation.name \in {"INX", "DEX"} -> last.pre.index_x
      [] Operation.name \in {"INY", "DEY"} -> last.pre.index_y
      [] OTHER -> MemRead(last.pre.memory, ResolvedAddress)

NotNZ(p) == BitAnd(p, 255 - N_BIT_STATUS - Z_BIT_STATUS)

\* The CPU with its program counter and the named fields set aside
Outside(c, fields) ==
    [f \in (DOMAIN c) \ (fields \cup {"program_counter"}) |-> c[f]]

\* The byte a load or transfer is to copy
LoadedByte ==
    IF Operation.name = "TAX" THEN last.pre.accumulator
    ELSE MemRead(last.pre.memory, ResolvedAddress)

LoadDestination ==
    CASE Operation.name = "LDA" -> "accumulator"
      [] Operation.name \in {"LDX", "TAX"} -> "index_x"
      [] Operation.name = "LDY" -> "index_y"

(***************************************************************************)
(* C18. LDA, LDX, LDY copy the byte at the resolved address into A, X, Y   *)
(* and TAX copies A into X; of the status bits only N and Z may change,    *)
(* and memory, S and the registers other than the destination are          *)
(* unchanged.                                                              *)
(***************************************************************************)
C18_LoadsCopyAndKeepTheRest ==
    (Executed /\ Operation.name \in {"LDA", "LDX", "LDY", "TAX"})
    => /\ cpu[LoadDestination] = LoadedByte
       /\ NotNZ(cpu.status) = NotNZ(last.pre.status)
       /\ Outside(cpu, {LoadDestination, "status"})
            = Outside(last.pre, {LoadDestination, "status"})

\* An LDY has loaded a byte that differs from the Y, X and A it found, with
\* V, D, I and C set before it
C18_Witness ==
    /\ Executed /\ Operation.name = "LDY"
    /\ cpu.index_y = LoadedByte
    /\ LoadedByte \notin {last.pre.index_y, last.pre.index_x, last.pre.accumulator}
    /\ NotNZ(last.pre.status) = 255 - N_BIT_STATUS - Z_BIT_STATUS
    /\ cpu.status # last.pre.status

\* The status bit each clear instruction is named after
NamedBit(name) ==
    CASE name = "CLC" -> 1
      [] name = "CLD" -> 8
      [] name = "CLI" -> 4
      [] name = "CLV" -> 64

StatusBits == {1, 2, 4, 8, 16, 32, 64, 128}

ClearExecuted ==
    Stepped /\ Mnemonic(FetchedByte) \in {"CLC", "CLD", "CLI", "CLV"}

(***************************************************************************)
(* C19. CLC, CLD, CLI, CLV each clear exactly their named status bit (C,   *)
(* D, I, V) and leave every other status bit, A, X, Y, S and memory        *)
(* unchanged, for every prior status value; PC advances by 1.              *)
(***************************************************************************)
C19_ClearsOnlyNamedBit ==
    ClearExecuted
    => /\ \A bit \in StatusBits :
             FlagSet(cpu.status, bit)
             <=> (bit # NamedBit(Mnemonic(FetchedByte)) /\ FlagSet(last.pre.status, bit))
       /\ Outside(cpu, {"status"}) = Outside(last.pre, {"status"})
       /\ cpu.program_counter = U16(PC0 + 1)

\* A CLV has run with every status bit set, and left all but V set
C19_Witness ==
    /\ ClearExecuted /\ Mnemonic(FetchedByte) = "CLV"
    /\ last.pre.status = 255
    /\ cpu.status = 255 - 64
    /\ cpu.program_counter = U16(PC0 + 1)

\* The last two calls were a PHA and, right after it, a PLA
PushThenPull ==
    /\ last.op = "runOpcode"
    /\ last.operation.name = "PLA"
    /\ last.prior.operation.name = "PHA"

\* The CPU before the PHA
BeforePush == last.prior.pre

(***************************************************************************)
(* C20. From any state (any value of S, the wrap at S = 0xFF included),    *)
(* PHA immediately followed by PLA leaves A and S equal to their values    *)
(* before the PHA.                                                         *)
(***************************************************************************)
C20_PushPullRoundTrip ==
    PushThenPull
    => /\ cpu.accumulator = BeforePush.accumulator
       /\ cpu.stack_pointer = BeforePush.stack_pointer

\* The PHA found S = 0xFF and wrapped it to 0; the PLA brought back S = 0xFF
\* and an accumulator that is not the zero of untouched memory
C20_Witness ==
    /\ PushThenPull
    /\ BeforePush.stack_pointer = 255
    /\ last.pre.stack_pointer = 0
    /\ cpu.stack_pointer = 255
    /\ cpu.accumulator = BeforePush.accumulator
    /\ cpu.accumulator # 0

\* The memory operand of the executed instruction, as it was before it
OperandByte == MemRead(last.pre.memory, ResolvedAddress)

\* The carry flag before the executed instruction, as a number
CarryIn == IF FlagSet(last.pre.status, 1) THEN 1 ELSE 0

AddExecuted == Executed /\ Operation.name = "ADC"

\* A + M + C before the ADC
AddSum == last.pre.accumulator + OperandByte + CarryIn

CompareExecuted == Executed /\ Operation.name \in {"CMP", "CPX", "CPY"}

\* The register a compare instruction reads, as it was before it
ComparedRegister ==
    CASE Operation.name = "CMP" -> last.pre.accumulator
      [] Operation.name = "CPX" -> last.pre.index_x
      [] Operation.name = "CPY" -> last.pre.index_y

(***************************************************************************)
(* C22. For CMP, CPX, CPY with register value r (A, X, Y) and operand M,   *)
(* from any prior status: afterwards C = 1 if and only if r >= M, Z = 1 if *)
(* and only if r = M, N = bit 7 of (r - M) mod 256, and A, X, Y and memory *)
(* are unchanged.                                                          *)
(***************************************************************************)
C22_CompareSetsCarryZeroNegative ==
    CompareExecuted
    => /\ FlagSet(cpu.status, 1) <=> ComparedRegister >= OperandByte
       /\ FlagSet(cpu.status, 2) <=> ComparedRegister = OperandByte
       /\ FlagSet(cpu.status, 128) <=> (ComparedRegister - OperandByte) % 256 >= 128
       /\ Outside(cpu, {"status", "stack_pointer"})
            = Outside(last.pre, {"status", "stack_pointer"})

BitTestExecuted == Executed /\ Operation.name = "BIT"

(***************************************************************************)
(* C23. BIT sets Z if and only if (A & M) = 0 and sets V to bit 6 of the   *)
(* memory operand M, whatever V and A were before; C, A, X, Y and memory   *)
(* are unchanged.                                                          *)
(***************************************************************************)
C23_BitTestSetsZeroAndOverflow ==
    BitTestExecuted
    => /\ FlagSet(cpu.status, 2) <=> BitAnd(last.pre.accumulator, OperandByte) = 0
       /\ FlagSet(cpu.status, 64) <=> FlagSet(OperandByte, 64)
       /\ FlagSet(cpu.status, 1) <=> FlagSet(last.pre.status, 1)
       /\ Outside(cpu, {"status", "stack_pointer"})
            = Outside(last.pre, {"status", "stack_pointer"})

ShiftExecuted == Executed /\ Operation.name \in {"ASL", "LSR"}

\* The byte a shift or rotate works on, as it was before: the accumulator in
\* accumulator mode, otherwise the memory byte at the resolved address
ShiftedByte == IF OnAccumulator THEN last.pre.accumulator ELSE OperandByte

(***************************************************************************)
(* C24. ASL replaces its operand v by (2 * v) mod 256 and sets C to bit 7  *)
(* of v; LSR replaces v by v div 2 and sets C to bit 0 of v; both update N *)
(* and Z from the new value and operate on A in accumulator mode,          *)
(* otherwise on the memory byte at the resolved address (leaving A         *)
(* unchanged).                                                             *)
(***************************************************************************)
C24_ShiftsLeftAndRight ==
    ShiftExecuted
    => /\ DestinationByte = IF Operation.name = "ASL" THEN (2 * ShiftedByte) % 256
                            ELSE ShiftedByte \div 2
       /\ FlagSet(cpu.status, 1)
            <=> IF Operation.name = "ASL" THEN ShiftedByte >= 128
                ELSE ShiftedByte % 2 = 1
       /\ FlagSet(cpu.status, 128) <=> DestinationByte >= 128
       /\ FlagSet(cpu.status, 2) <=> DestinationByte = 0
       /\ ~OnAccumulator => cpu.accumulator = last.pre.accumulator
       /\ OnAccumulator => cpu.memory = last.pre.memory

\* An LSR has shifted the memory byte 0xff, which is not the accumulator's,
\* to 0x7f and set the carry; the accumulator is as it was
C24_Witness ==
    /\ ShiftExecuted /\ Operation.name = "LSR" /\ ~OnAccumulator
    /\ ShiftedByte = 255
    /\ last.pre.accumulator # 255
    /\ DestinationByte = 127
    /\ cpu.accumulator = last.pre.accumulator
    /\ FlagSet(cpu.status, 1)

RotateExecuted == Executed /\ Operation.name = "ROL"

(***************************************************************************)
(* C25. ROL, in accumulator mode and in memory mode alike, stores          *)
(* ((2 * v) mod 256) + oldC into its operand (new bit 0 = the carry flag   *)
(* before the instruction), sets C to bit 7 of the old operand v, and sets *)
(* N and Z from the stored rotated result.                                 *)
(***************************************************************************)
C25_RotateLeftThroughCarry ==
    RotateExecuted
    => /\ DestinationByte = ((2 * ShiftedByte) % 256) + CarryIn
       /\ FlagSet(cpu.status, 1) <=> ShiftedByte >= 128
       /\ FlagSet(cpu.status, 128) <=> DestinationByte >= 128
       /\ FlagSet(cpu.status, 2) <=> DestinationByte = 0

LogicExecuted == Executed /\ Operation.name \in {"AND", "EOR", "ORA"}

\* Bit `bit` of the result of the logical operation `name` on bytes a and m
LogicBit(name, a, m, bit) ==
    CASE name = "AND" -> FlagSet(a, bit) /\ FlagSet(m, bit)
      [] name = "EOR" -> FlagSet(a, bit) # FlagSet(m, bit)
      [] name = "ORA" -> FlagSet(a, bit) \/ FlagSet(m, bit)

(***************************************************************************)
(* C26. AND, EOR and ORA set A to A & M, A XOR M and A | M respectively,   *)
(* update N and Z from the new A, and leave C, V, the other registers and  *)
(* memory unchanged.                                                       *)
(***************************************************************************)
C26_LogicalOperations ==
    LogicExecuted
    => /\ \A bit \in StatusBits :
             FlagSet(cpu.accumulator, bit)
             <=> LogicBit(Operation.name, last.pre.accumulator, OperandByte, bit)
       /\ FlagSet(cpu.status, 128) <=> cpu.accumulator >= 128
       /\ FlagSet(cpu.status, 2) <=> cpu.accumulator = 0
       /\ \A bit \in {1, 64} :
             FlagSet(cpu.status, bit) <=> FlagSet(last.pre.status, bit)
       /\ Outside(cpu, {"accumulator", "status"})
            = Outside(last.pre, {"accumulator", "status"})

\* An ORA of two different bytes that share a bit, where AND, XOR and OR all
\* differ, has left the OR in the accumulator; C and V were set and stay set
C26_Witness ==
    /\ LogicExecuted /\ Operation.name = "ORA"
    /\ last.pre.accumulator # OperandByte
    /\ BitAnd(last.pre.accumulator, OperandByte) # 0
    /\ cpu.accumulator = BitOr(last.pre.accumulator, OperandByte)
    /\ FlagSet(last.pre.status, 1) /\ FlagSet(cpu.status, 1)
    /\ FlagSet(last.pre.status, 64) /\ FlagSet(cpu.status, 64)

BreakExecuted == Stepped /\ Mnemonic(FetchedByte) = "BRK"

(***************************************************************************)
(* C27. Executing BRK at address p makes Run return success with           *)
(* PC = p + 1 and with A, X, Y, S, P (the B and I flags in particular) and *)
(* every memory byte unchanged: nothing is pushed on the stack and the     *)
(* vector at 0xFFFE is not followed.                                       *)
(***************************************************************************)
C27_BreakHaltsAndKeepsState ==
    BreakExecuted
    => /\ ctl = "returned"
       /\ last.err = ErrNil
       /\ cpu.program_counter = U16(PC0 + 1)
       /\ Outside(cpu, {}) = Outside(last.pre, {})

\* Run has returned from a BRK met with B and I clear and registers that are
\* not zero
C27_Witness ==
    /\ BreakExecuted
    /\ ctl = "returned"
    /\ ~FlagSet(last.pre.status, 16) /\ ~FlagSet(last.pre.status, 4)
    /\ last.pre.accumulator # 0 /\ last.pre.index_x # 0
    /\ cpu.status = last.pre.status
    /\ cpu.program_counter = U16(PC0 + 1)

\* The addressing modes that resolve to a memory address
ResolvingModes ==
    {AddrImmediate, AddrZeroPage, AddrZeroPageX, AddrZeroPageY, AddrAbsolute,
     AddrAbsoluteX, AddrAbsoluteY, AddrIndirectX, AddrIndirectY}

\* The indices of c.memory
MemoryIndices == 0 .. MEMORY_SIZE - 1

\* The last step executed an LDA with an absolute operand
LoadAbsoluteExecuted ==
    /\ Stepped /\ Mnemonic(FetchedByte) = "LDA"
    /\ opcodes[FetchedByte].mode = AddrAbsolute

(***************************************************************************)
(* C28. No fetch-execute step, LoadROM (len <= 65536) or Reset reads or    *)
(* writes a memory index outside 0..65535: every written index and every   *)
(* resolved operand address is in range, a word read at 0xFFFF takes its   *)
(* high byte from 0x0000, and PC wraps modulo 65536.                       *)
(***************************************************************************)
C28_MemoryIndicesInRange ==
    /\ DOMAIN cpu.memory \subseteq MemoryIndices
    /\ cpu.program_counter \in MemoryIndices
    /\ STACK_START + cpu.stack_pointer \in MemoryIndices
    /\ (Stepped /\ InTable(FetchedByte) /\ opcodes[FetchedByte].mode \in ResolvingModes)
       => ResolvedAddress \in MemoryIndices
    /\ LoadAbsoluteExecuted
       => /\ cpu.accumulator = MemRead(last.pre.memory, OperandWord)
          /\ cpu.program_counter = (PC0 + 3) % 65536

\* An LDA absolute at 0xFFFE has read its operand word at 0xFFFF and 0x0000,
\* the high byte not zero, and left PC at 0x0001
C28_Witness ==
    /\ LoadAbsoluteExecuted
    /\ PC0 = 65534
    /\ MemRead(last.pre.memory, 0) # 0
    /\ cpu.accumulator = MemRead(last.pre.memory, OperandWord)
    /\ cpu.accumulator # last.pre.accumulator
    /\ cpu.program_counter = 1

\* A fetch-execute step of one of two instances is being taken
InstanceStepping == ctl = "pair" /\ (cpu' # cpu \/ peer' # peer \/ last' # last)

(***************************************************************************)
(* C29. There is no shared mutable state outside the CPU value: a          *)
(* fetch-execute step of one CPU instance writes nothing but that          *)
(* instance's registers and memory, so steps of two instances, in any      *)
(* interleaving, leave the other instance and everything outside the two   *)
(* CPU values as they were.                                                *)
(***************************************************************************)
C29_StepTouchesOnlyItsInstance ==
    [][InstanceStepping
       => /\ buffer' = buffer
          /\ cpu' = cpu \/ peer' = peer]_vars

PushExecuted == Executed /\ Operation.name \in {"PHA", "PHP", "JSR"}

\* The memory indices whose byte the last call changed
WrittenIndices ==
    {a \in DOMAIN cpu.memory \cup DOMAIN last.pre.memory :
        MemRead(cpu.memory, a) # MemRead(last.pre.memory, a)}

\* 0x0100 .. 0x01FF
StackPage == 256 .. 511

(***************************************************************************)
(* C30. Every memory write performed by a stack push (PHA, PHP, and both   *)
(* bytes of the return address pushed by JSR) lands inside the stack page  *)
(* 0x0100..0x01FF, for every value of S including S = 0xFF.                *)
(***************************************************************************)
C30_PushesStayInStackPage ==
    PushExecuted => WrittenIndices \subseteq StackPage

\* The last step executed a branch and took it
BranchTaken ==
    /\ Stepped /\ FetchedByte \in BranchOpcodes
    /\ last.post = InstructionProgramCounterUpdated

\* Where the same branch lands from the same state with operand byte 0
TargetOfZero ==
    processNextInstruction(
        [last.pre EXCEPT !.memory = MemWrite(last.pre.memory, U16(PC0 + 1), 0)]
    ).c.program_counter

(***************************************************************************)
(* C31. Branch displacements are signed: a taken branch whose operand byte *)
(* b is >= 0x80 lands 256 - b bytes below the target of the same branch    *)
(* with operand 0, modulo 65536: it branches backward.                     *)
(***************************************************************************)
C31_BranchDisplacementSigned ==
    (BranchTaken /\ Operand1 >= 128)
    => cpu.program_counter = (TargetOfZero - (256 - Operand1)) % 65536

\* A compare instruction was executed from a status with every bit clear
CompareFromClear == CompareExecuted /\ last.pre.status = 0

\* (r - M) mod 256 of the compare executed, and its bit 7 as a status byte
CompareDifference == (ComparedRegister - OperandByte) % 256

DifferenceSign == IF CompareDifference >= 128 THEN 128 ELSE 0

(***************************************************************************)
(* C32, as stated. Started with all status bits clear, CMP, CPX and CPY    *)
(* with register value r and operand M end with status exactly C when      *)
(* r > M, exactly Z (C clear) when r = M, and with C clear and N = bit 7   *)
(* of (r - M) mod 256 when r < M.                                          *)
(***************************************************************************)
C32_CompareFromClearStatus ==
    CompareFromClear
    => /\ ComparedRegister > OperandByte => cpu.status = 1
       /\ ComparedRegister = OperandByte => cpu.status = 2
       /\ ComparedRegister < OperandByte
          => /\ ~FlagSet(cpu.status, 1)
             /\ FlagSet(cpu.status, 128) <=> CompareDifference >= 128

(***************************************************************************)
(* C32, amended. Started with all status bits clear, CMP, CPX and CPY end  *)
(* with status C plus N = bit 7 of (r - M) mod 256 when r > M, exactly Z   *)
(* when r = M, and N = bit 7 of (r - M) mod 256 alone when r < M.          *)
(***************************************************************************)
C32_CompareFromClearStatusWithSign ==
    CompareFromClear
    => /\ ComparedRegister > OperandByte => cpu.status = 1 + DifferenceSign
       /\ ComparedRegister = OperandByte => cpu.status = 2
       /\ ComparedRegister < OperandByte => cpu.status = DifferenceSign

\* A compare of a register with a smaller operand, 128 or more below it, has
\* left both C and N
C32_Witness ==
    /\ CompareFromClear
    /\ ComparedRegister > OperandByte
    /\ CompareDifference >= 128
    /\ cpu.status = 129

\* The last call was a direct call of updateStatusFlags; its argument
FlagsUpdated == last.op = "updateStatusFlags"

UpdatedFrom == last.args[1]

(***************************************************************************)
(* C33. updateStatusFlags(v) sets N if and only if bit 7 of v is 1 and Z   *)
(* if and only if v = 0, and leaves every other bit of P (V, B, D, I, C    *)
(* and bit 5) unchanged, for every byte v and every prior status.          *)
(***************************************************************************)
C33_UpdateStatusFlagsTouchesNZ ==
    FlagsUpdated
    => /\ FlagSet(cpu.status, 128) <=> UpdatedFrom >= 128
       /\ FlagSet(cpu.status, 2) <=> UpdatedFrom = 0
       /\ \A bit \in StatusBits \ {128, 2} :
             FlagSet(cpu.status, bit) <=> FlagSet(last.pre.status, bit)

\* updateStatusFlags(0) on a status with N set and Z clear has cleared N, set
\* Z and kept the six other bits, all of them set
C33_Witness ==
    /\ FlagsUpdated
    /\ UpdatedFrom = 0
    /\ last.pre.status = 253
    /\ cpu.status = 127

\* The last call was a direct call of getParameterValue; its mode, the CPU it
\* was made on (PC at the operand) and the address it returned
AddressResolved == last.op = "getParameterValue"

ResolvedMode == last.args[1]

\* The byte at address a, and the little-endian word whose low byte is at a,
\* before the call
ByteAt(a) == MemRead(last.pre.memory, a % 65536)

WordAt(a) == ByteAt(a) + 256 * ByteAt(a + 1)

\* PC and the operand byte d at PC
OperandAddress == last.pre.program_counter

OperandD == ByteAt(OperandAddress)

(***************************************************************************)
(* C34. With PC pointing at the operand, the address resolver returns:     *)
(* Immediate -> PC itself; Absolute -> the little-endian word a at PC;     *)
(* Absolute,X and Absolute,Y -> (a + X) mod 65536 and (a + Y) mod 65536;   *)
(* (Indirect,X) -> the little-endian word stored at (d + X) mod 256;       *)
(* (Indirect),Y -> (the little-endian word stored at d) + Y mod 65536,     *)
(* where d is the byte at PC; it modifies no state.                        *)
(***************************************************************************)
C34_AddressResolver ==
    AddressResolved
    => /\ ResolvedMode = AddrImmediate => last.value = OperandAddress
       /\ ResolvedMode = AddrAbsolute => last.value = WordAt(OperandAddress)
       /\ ResolvedMode = AddrAbsoluteX
          => last.value = (WordAt(OperandAddress) + last.pre.index_x) % 65536
       /\ ResolvedMode = AddrAbsoluteY
          => last.value = (WordAt(OperandAddress) + last.pre.index_y) % 65536
       /\ ResolvedMode = AddrIndirectX
          => last.value = WordAt((OperandD + last.pre.index_x) % 256)
       /\ ResolvedMode = AddrIndirectY
          => last.value = (WordAt(OperandD) + last.pre.index_y) % 65536
       /\ cpu = last.pre

\* (Indirect),Y has resolved through a pointer in page zero whose two bytes are
\* not zero, with a Y that is not zero
C34_Witness ==
    /\ AddressResolved
    /\ ResolvedMode = AddrIndirectY
    /\ ByteAt(OperandD) # 0 /\ ByteAt(OperandD + 1) # 0
    /\ last.pre.index_y # 0
    /\ last.value = (WordAt(OperandD) + last.pre.index_y) % 65536
    /\ cpu = last.pre

\* The last call was a direct call of writeAddressValue
WordWritten == last.op = "writeAddressValue"

\* The last call was a readAddressValue of the address that the call before
\* it, a writeAddressValue, wrote
WordReadBack ==
    /\ last.op = "readAddressValue"
    /\ last.prior.op = "writeAddressValue"
    /\ last.prior.args[1] = last.args[1]

(***************************************************************************)
(* C35. writeAddressValue(a, v) stores v mod 256 at address a and          *)
(* v div 256 at address (a + 1) mod 65536, and a following                 *)
(* readAddressValue(a) returns v, for every 16-bit address a and every     *)
(* 16-bit value v.                                                         *)
(***************************************************************************)
C35_WordWriteReadRoundTrip ==
    /\ WordWritten
       => /\ MemRead(cpu.memory, last.args[1]) = last.args[2] % 256
          /\ MemRead(cpu.memory, (last.args[1] + 1) % 65536) = last.args[2] \div 256
          /\ DOMAIN cpu.memory \subseteq MemoryIndices
    /\ WordReadBack => last.value = last.prior.args[2]

\* A word with two different non-zero bytes was written at 0xFFFF, its high
\* byte going to 0x0000, and read back
C35_Witness ==
    /\ WordReadBack
    /\ last.args[1] = 65535
    /\ last.prior.args[2] = 4660
    /\ MemRead(cpu.memory, 65535) = 52
    /\ MemRead(cpu.memory, 0) = 18
    /\ last.value = 4660

\* The step is a push made by PHA or PHP, or a pull made by PLA or PLP
PushStep == last'.op = "runOpcode" /\ last'.operation.name \in {"PHA", "PHP"}
PullStep == last'.op = "runOpcode" /\ last'.operation.name \in {"PLA", "PLP"}

\* The byte the step's pull put in its register
PulledByte ==
    IF last'.operation.name = "PLA" THEN cpu'.accumulator ELSE cpu'.status

(***************************************************************************)
(* C36. The stack is LIFO: a push stores the byte at 0x0100 + S and then   *)
(* sets S = (S + 1) mod 256; a pull sets S = (S - 1) mod 256 and then      *)
(* reads 0x0100 + S. Hence in any sequence of PHA, PHP, PLA and PLP in     *)
(* which the number of outstanding pushes stays within 0..256, each pull   *)
(* returns the byte of the most recent push not yet pulled, PLP replacing  *)
(* the whole P byte with it.                                               *)
(***************************************************************************)
C36_StackIsLIFO ==
    [][/\ PushStep
          => /\ MemRead(cpu'.memory, STACK_START + cpu.stack_pointer)
                  = PushedByte(cpu, last'.operation)
             /\ cpu'.stack_pointer = (cpu.stack_pointer + 1) % 256
       /\ PullStep
          => /\ cpu'.stack_pointer = (cpu.stack_pointer + 255) % 256
             /\ PulledByte = MemRead(cpu.memory, STACK_START + cpu'.stack_pointer)
             /\ PulledByte = outstanding[Len(outstanding)]
             /\ cpu'.memory = cpu.memory]_vars

\* With 255 bytes outstanding a PHP made them 256, the stack pointer back at
\* its first value, and the PLA after it returned the status byte, which
\* differed from the accumulator pushed before it
C36_Witness ==
    /\ ctl = "stack"
    /\ last.operation.name = "PLA"
    /\ last.prior.operation.name = "PHP"
    /\ Len(outstanding) = 255
    /\ last.pre.stack_pointer = 0
    /\ cpu.stack_pointer = 255
    /\ cpu.accumulator = last.prior.pre.status
    /\ last.prior.pre.status # last.prior.pre.accumulator

\* Some opcode byte of the table decodes to the mnemonic
NamedByTable(name) == \E h \in DOMAIN opcodes : opcodes[h].name = name

\* The last call dispatched its mnemonic to a handler other than the fallback
HandlerFound == last.op = "runOpcode" /\ last.err # ErrUnimplemented

(***************************************************************************)
(* C37. The opcode table and the handler dispatch agree: every mnemonic    *)
(* named by a table entry has a handler other than the unimplemented       *)
(* fallback, and every mnemonic that has a handler (LDY, LSR, NOP, ORA,    *)
(* PHA, PHP, PLA, PLP and ROL among them) is named by at least one opcode  *)
(* byte of the table, so that Run can execute it.                          *)
(***************************************************************************)
C37_TableAndDispatchAgree ==
    (last.op = "runOpcode")
    => (HandlerFound <=> NamedByTable(last.operation.name))

\* The zero-page address at which the indirect mode of the last call has the
\* low byte of its pointer
PointerAddress ==
    IF ResolvedMode = AddrIndirectX THEN (OperandD + last.pre.index_x) % 256
    ELSE OperandD

\* The index the mode adds to the pointer it read
PointerIndex == IF ResolvedMode = AddrIndirectY THEN last.pre.index_y ELSE 0

(***************************************************************************)
(* C38. For (Indirect,X) and (Indirect),Y both bytes of the 16-bit pointer *)
(* are read from page zero: when the pointer's low byte is at 0x00FF its   *)
(* high byte is read from 0x0000, never from 0x0100.                       *)
(***************************************************************************)
C38_IndirectPointerWrapsInPageZero ==
    (AddressResolved /\ ResolvedMode \in {AddrIndirectX, AddrIndirectY}
        /\ PointerAddress = 255)
    => last.value = (ByteAt(255) + 256 * ByteAt(0) + PointerIndex) % 65536

\* The last call was a LoadROM that returned no error
ROMLoaded == last.op = "LoadROM" /\ last.err = ErrNil

\* The addresses below the ROM segment whose byte the last call changed
ChangedBelowROM == {a \in WrittenIndices : a < ROM_SEGMENT_START}

(***************************************************************************)
(* C39. A successful LoadROM (any image with len <= 65536) changes no      *)
(* memory byte below 0x8000 and no register: it writes only inside the ROM *)
(* segment 0x8000..0xFFFF.                                                 *)
(***************************************************************************)
C39_LoadROMWritesOnlyROMSegment ==
    ROMLoaded
    => /\ ChangedBelowROM = {}
       /\ Outside(cpu, {"memory"}) = Outside(last.pre, {"memory"})
       /\ cpu.program_counter = last.pre.program_counter

\* The step is an iteration of Run's loop that fetched a byte other than BRK's
\* and other than one without a table entry
StraightStep ==
    /\ last'.op = "processNextInstruction"
    /\ InTable(MemRead(cpu.memory, cpu.program_counter))
    /\ Mnemonic(MemRead(cpu.memory, cpu.program_counter)) # "BRK"

(***************************************************************************)
(* C40. If the loaded image contains only instructions that return         *)
(* Continue and do not write memory (no JMP, JSR, branch, ASL/INC/DEC on   *)
(* memory) and is followed by zero bytes, then Run started after           *)
(* LoadAndReset eventually returns: PC strictly increases at every step    *)
(* until a BRK or an unknown opcode is fetched.                            *)
(***************************************************************************)
C40_StraightLineRunReturns ==
    /\ [][StraightStep
          => /\ cpu'.program_counter > cpu.program_counter
             /\ cpu'.memory = cpu.memory
             /\ ctl' = "running"]_vars
    /\ (ctl = "running") ~> (ctl = "returned")

\* Run returned at its fourth iteration, which fetched the zero byte after a
\* program of three instructions and seven bytes
C40_Witness ==
    /\ ctl = "returned"
    /\ steps = 4
    /\ Stepped
    /\ last.err = ErrNil
    /\ FetchedByte = 0
    /\ PC0 = ROM_SEGMENT_START + 7
    /\ cpu.program_counter = ROM_SEGMENT_START + 8
    /\ entry.program_counter = ROM_SEGMENT_START

====
